---------------------------- MODULE Spec2Model ----------------------------
(***************************************************************************)
(* A model of src/oc-messengerbot.ts: the per-user message history store   *)
(* (storeMessage), the platform event handlers that feed it, and the       *)
(* command handlers that read or clear it (/status, /disconnect, /connect  *)
(* and the free-text query).                                               *)
(*                                                                         *)
(* JavaScript runs every handler to completion between two awaits, so one  *)
(* action of the model is one such segment: the code from the start of a   *)
(* handler, or from the resumption of an await, up to the next await or    *)
(* the return.                                                             *)
(*                                                                         *)
(* Times are integers: seconds where the source holds seconds (Telegram's  *)
(* date, the integer part of Slack's ts) and milliseconds where it holds   *)
(* milliseconds, counted from an epoch a few days before the instants      *)
(* used, so that every value fits the model checker's integers.            *)
(***************************************************************************)
EXTENDS Integers, Sequences, FiniteSets, TLC

(***************************************************************************)
(* Program constants.                                                      *)
(***************************************************************************)
MAX_HISTORY_PER_CHANNEL == 500
MAX_MESSAGES_TO_DISPLAY == 20

HOUR_MS == 60 * 60 * 1000
DAY_MS  == 24 * HOUR_MS

(***************************************************************************)
(* Bounds of the model.                                                    *)
(***************************************************************************)
\* platform events delivered in one behaviour
MaxEvents == 2
\* commands (connect, disconnect, status, query) received in one behaviour
MaxCommands == 2
\* messages already held by the busiest channel of the long-running store
Backlog == 499
\* messages held by the same channel of a store that is a few events old
Recent == 21

Users     == {"u1"}
\* a second user of the bot, for the behaviours with two users
Others    == {"u2"}
Everyone  == Users \cup Others
Platforms == <<"telegram", "discord", "slack">>
PlatformSet == {"telegram", "discord", "slack"}

Min(a, b) == IF a < b THEN a ELSE b


(***************************************************************************)
(* The inputs of the model: channels the platforms know, and the payloads  *)
(* of the events they deliver.  NowS is the instant (in seconds) around    *)
(* which the behaviours take place.                                        *)
(***************************************************************************)
NowS == 12 * 24 * 60 * 60 + 10 * 60 * 60

ChannelIds == {"c1", "c2"}

\* the display name the platform reports for a channel (chat.title,
\* message.channel.name, channelInfo.channel.name)
ChannelTitle(c) == IF c = "c1" THEN "general" ELSE "Project Team"

\* event payloads: the platform's message id, its text, its time (whole
\* seconds and the milliseconds within the second) and its author
Payloads ==
  { [id |-> 7001, text |-> "Bug in login", sec |-> NowS - 3600, sub |-> 250,
     authorId |-> "a1", authorName |-> "Ann"] }

(***************************************************************************)
(* The message objects the three connectors store.  seq is not a field of  *)
(* the program: it tags the delivery (0 for messages stored before the     *)
(* behaviour starts) so that the claims can tell two equal messages apart. *)
(***************************************************************************)
telegramMessage(c, pl, n) ==
  [id |-> pl.id, text |-> pl.text, date |-> pl.sec, chatId |-> c,
   chatTitle |-> ChannelTitle(c), senderId |-> pl.authorId,
   senderName |-> pl.authorName, seq |-> n]

discordMessage(c, pl, n) ==
  [id |-> pl.id, content |-> pl.text, timestamp |-> pl.sec * 1000 + pl.sub,
   channelId |-> c, channelName |-> ChannelTitle(c), authorId |-> pl.authorId,
   authorName |-> pl.authorName, seq |-> n]

\* Slack's ts is "<seconds>.<fraction>": parseInt(ts.split('.')[0]) * 1000
slackMessage(c, pl, n) ==
  [id |-> <<pl.sec, pl.sub>>, text |-> pl.text, timestamp |-> pl.sec * 1000,
   channelId |-> c, channelName |-> ChannelTitle(c), userId |-> pl.authorId,
   userName |-> pl.authorName, seq |-> n]

\* the record a connector passes to storeMessage (lines 115-123, 174-182,
\* 238-246), by platform
messageFor(platform, c, pl, n) ==
  CASE platform = "telegram" -> telegramMessage(c, pl, n)
    [] platform = "discord"  -> discordMessage(c, pl, n)
    [] platform = "slack"    -> slackMessage(c, pl, n)

\* the message handler n stores
MessageOf(h, n) == messageFor(h.platform, h.channelId, h.payload, n)

(***************************************************************************)
(* Map<string, any[]>: a JavaScript Map iterates in insertion order, so a  *)
(* platform's history is the sequence of its entries [id, msgs].           *)
(***************************************************************************)
MapHas(m, k) == \E i \in 1..Len(m) : m[i].id = k
MapIndex(m, k) == CHOOSE i \in 1..Len(m) : m[i].id = k
MapGet(m, k) == m[MapIndex(m, k)].msgs

NewMap == <<>>

\* user.telegramConfig, user.discordConfig, user.slackConfig: the field of a
\* platform's config.  Its value is 0 for undefined, or the number of the
\* config object it references.
ConfigOf(platform) == platform \o "Config"

\* the users in a fixed order, and the number of the config object and of
\* the client of a connection that was made before the behaviour starts
UserOrder == <<"u1", "u2">>

Slot(userKey, platform) ==
  3 * ((CHOOSE i \in 1..Len(UserOrder) : UserOrder[i] = userKey) - 1)
    + (CHOOSE i \in 1..Len(Platforms) : Platforms[i] = platform)

newUser(userKey) ==
  [userId |-> userKey,
   telegramConfig |-> 0, discordConfig |-> 0, slackConfig |-> 0,
   platformClients |-> [telegram |-> FALSE, discord |-> FALSE,
                        slack |-> FALSE, slackRtm |-> FALSE],
   messageHistory |-> [telegram |-> NewMap, discord |-> NewMap, slack |-> NewMap]]

(***************************************************************************)
(* storeMessage(userId, platform, channelId, message), on the user table   *)
(* us; the value is the user table afterwards.                             *)
(***************************************************************************)
\* variants of storeMessage with one line changed: no trim
storeMessage_noTrim(us, userId, platform, channelId, message) ==
  IF userId \notin DOMAIN us THEN us
  ELSE LET h0 == us[userId].messageHistory[platform]
           h1 == IF MapHas(h0, channelId) THEN h0
                 ELSE Append(h0, [id |-> channelId, msgs |-> <<>>])
           i  == MapIndex(h1, channelId)
       IN  [us EXCEPT ![userId].messageHistory[platform] =
                         [h1 EXCEPT ![i].msgs = Append(h1[i].msgs, message)]]

\* ... pop() for shift(): the trim drops the newest message
storeMessage_dropNewest(us, userId, platform, channelId, message) ==
  IF userId \notin DOMAIN us THEN us
  ELSE LET h0 == us[userId].messageHistory[platform]
           h1 == IF MapHas(h0, channelId) THEN h0
                 ELSE Append(h0, [id |-> channelId, msgs |-> <<>>])
           i  == MapIndex(h1, channelId)
           pushed == Append(h1[i].msgs, message)
           trimmed == IF Len(pushed) > MAX_HISTORY_PER_CHANNEL
                      THEN SubSeq(pushed, 1, Len(pushed) - 1) ELSE pushed
       IN  [us EXCEPT ![userId].messageHistory[platform] =
                         [h1 EXCEPT ![i].msgs = trimmed]]

\* ... a new channel is set on a new Map: the platform's other channels go
storeMessage_freshMap(us, userId, platform, channelId, message) ==
  IF userId \notin DOMAIN us THEN us
  ELSE LET h0 == us[userId].messageHistory[platform]
           h1 == IF MapHas(h0, channelId) THEN h0
                 ELSE <<[id |-> channelId, msgs |-> <<>>]>>
           i  == MapIndex(h1, channelId)
           pushed == Append(h1[i].msgs, message)
           trimmed == IF Len(pushed) > MAX_HISTORY_PER_CHANNEL
                      THEN Tail(pushed) ELSE pushed
       IN  [us EXCEPT ![userId].messageHistory[platform] =
                         [h1 EXCEPT ![i].msgs = trimmed]]

\* ... no channel entry is created: the message of an unknown channel is lost
storeMessage_noCreate(us, userId, platform, channelId, message) ==
  IF userId \notin DOMAIN us THEN us
  ELSE LET h0 == us[userId].messageHistory[platform]
       IN  IF ~MapHas(h0, channelId) THEN us
           ELSE LET i == MapIndex(h0, channelId)
                    pushed == Append(h0[i].msgs, message)
                    trimmed == IF Len(pushed) > MAX_HISTORY_PER_CHANNEL
                               THEN Tail(pushed) ELSE pushed
                IN  [us EXCEPT ![userId].messageHistory[platform] =
                                  [h0 EXCEPT ![i].msgs = trimmed]]

\* ... a channel over the limit is emptied
storeMessage_emptyOverLimit(us, userId, platform, channelId, message) ==
  IF userId \notin DOMAIN us THEN us
  ELSE LET h0 == us[userId].messageHistory[platform]
           h1 == IF MapHas(h0, channelId) THEN h0
                 ELSE Append(h0, [id |-> channelId, msgs |-> <<>>])
           i  == MapIndex(h1, channelId)
           pushed == Append(h1[i].msgs, message)
           trimmed == IF Len(pushed) > MAX_HISTORY_PER_CHANNEL
                      THEN <<>> ELSE pushed
       IN  [us EXCEPT ![userId].messageHistory[platform] =
                         [h1 EXCEPT ![i].msgs = trimmed]]

\* ... the message is stored for every user of the table
storeMessage_everyUser(us, userId, platform, channelId, message) ==
  IF userId \notin DOMAIN us THEN us
  ELSE [u \in DOMAIN us |->
          LET h0 == us[u].messageHistory[platform]
              h1 == IF MapHas(h0, channelId) THEN h0
                    ELSE Append(h0, [id |-> channelId, msgs |-> <<>>])
              i  == MapIndex(h1, channelId)
              pushed == Append(h1[i].msgs, message)
              trimmed == IF Len(pushed) > MAX_HISTORY_PER_CHANNEL
                         THEN Tail(pushed) ELSE pushed
          IN  [us[u] EXCEPT !.messageHistory[platform] =
                               [h1 EXCEPT ![i].msgs = trimmed]]]

\* ... a message whose id the channel already holds is not stored again
storeMessage_skipKnownId(us, userId, platform, channelId, message) ==
  IF userId \notin DOMAIN us THEN us
  ELSE LET h0 == us[userId].messageHistory[platform]
           h1 == IF MapHas(h0, channelId) THEN h0
                 ELSE Append(h0, [id |-> channelId, msgs |-> <<>>])
           i  == MapIndex(h1, channelId)
           pushed == IF \E j \in 1..Len(h1[i].msgs) : h1[i].msgs[j].id = message.id
                     THEN h1[i].msgs ELSE Append(h1[i].msgs, message)
           trimmed == IF Len(pushed) > MAX_HISTORY_PER_CHANNEL
                      THEN Tail(pushed) ELSE pushed
       IN  [us EXCEPT ![userId].messageHistory[platform] =
                         [h1 EXCEPT ![i].msgs = trimmed]]

\* lines 53-68
storeMessage(us, userId, platform, channelId, message) ==
  IF userId \notin DOMAIN us THEN us
  ELSE LET h0 == us[userId].messageHistory[platform]
           h1 == IF MapHas(h0, channelId) THEN h0
                 ELSE Append(h0, [id |-> channelId, msgs |-> <<>>])
           i  == MapIndex(h1, channelId)
           pushed == Append(h1[i].msgs, message)
           trimmed == IF Len(pushed) > MAX_HISTORY_PER_CHANNEL
                      THEN Tail(pushed) ELSE pushed
       IN  [us EXCEPT ![userId].messageHistory[platform] =
                         [h1 EXCEPT ![i].msgs = trimmed]]

\* the message a full channel loses to the next append, if any
Evicted(us, userId, platform, channelId) ==
  LET h == us[userId].messageHistory[platform]
  IN  IF MapHas(h, channelId) /\ Len(MapGet(h, channelId)) >= MAX_HISTORY_PER_CHANNEL
      THEN {Head(MapGet(h, channelId))} ELSE {}


(***************************************************************************)
(* Stores the program reaches and the behaviours may start from: the       *)
(* store of a user connected to the three platforms whose Telegram chat c1 *)
(* holds n messages (message i of n: the last FreshCount half an hour      *)
(* apart up to a minute ago, the others more than eight days old), with a  *)
(* few Discord and Slack messages.  Every channel is within its limit, as  *)
(* storeMessage leaves it.                                                 *)
(***************************************************************************)
FreshCount == 30

SeedPayload(i, n) ==
  [id |-> i,
   text |-> IF i % 3 = 0 THEN "Bug report today"
            ELSE IF i % 3 = 1 THEN "hello team" ELSE "Deploy done last week",
   sec |-> IF i > n - FreshCount
           THEN NowS - 60 - (n - i) * 1800
           ELSE NowS - 8 * 24 * 3600 - (n - i) * 60,
   sub |-> 0,
   authorId |-> IF i % 2 = 0 THEN "a1" ELSE "b2",
   authorName |-> IF i % 2 = 0 THEN "Ann" ELSE "Bob"]

\* a later message of the same second as pl: Slack's ts keeps the fraction,
\* the stored timestamp (line 241) does not
SameSecond(pl) ==
  [pl EXCEPT !.id = pl.id + 1, !.text = "Bug fixed, thanks", !.sub = pl.sub + 500,
             !.authorId = "b2", !.authorName = "Bob"]

SeedHistory(n) ==
  [telegram |-> << [id |-> "c1",
                    msgs |-> [i \in 1..n |->
                                telegramMessage("c1", SeedPayload(i, n), 0)]] >>,
   discord  |-> << [id |-> "c2",
                    msgs |-> [i \in 1..3 |->
                                discordMessage("c2", SeedPayload(i, 4), 0)]],
                   [id |-> "c1",
                    msgs |-> [i \in 1..2 |->
                                discordMessage("c1", SeedPayload(3 * i, 7), 0)]] >>,
   slack    |-> << [id |-> "c2",
                    msgs |-> [i \in 1..2 |->
                                slackMessage("c2", SeedPayload(2 * i, 5), 0)]
                             \o <<slackMessage("c2", SameSecond(SeedPayload(4, 5)), 0)>>] >>]

SeedUser(userKey, n) ==
  [userId |-> userKey,
   telegramConfig |-> Slot(userKey, "telegram"),
   discordConfig |-> Slot(userKey, "discord"),
   slackConfig |-> Slot(userKey, "slack"),
   platformClients |-> [telegram |-> TRUE, discord |-> TRUE,
                        slack |-> TRUE, slackRtm |-> TRUE],
   messageHistory |-> SeedHistory(n)]

\* a user with the given clients set and no history
ConnectedUser(userKey, connected) ==
  [newUser(userKey) EXCEPT
     !.telegramConfig = IF "telegram" \in connected
                        THEN Slot(userKey, "telegram") ELSE 0,
     !.discordConfig = IF "discord" \in connected
                       THEN Slot(userKey, "discord") ELSE 0,
     !.slackConfig = IF "slack" \in connected THEN Slot(userKey, "slack") ELSE 0,
     !.platformClients = [telegram |-> "telegram" \in connected,
                          discord |-> "discord" \in connected,
                          slack |-> "slack" \in connected,
                          slackRtm |-> "slack" \in connected]]

(***************************************************************************)
(* State.                                                                  *)
(*   users     the user table (const users = new Map<string, UserConfig>)  *)
(*             restricted to platformClients (TRUE: a client object is     *)
(*             set) and messageHistory                                     *)
(*   handlers  the platform event handlers started so far, in the order of *)
(*             delivery: the event, and where the handler stands           *)
(*   cmds      the commands in progress, in the order of their arrival: a  *)
(*             command that awaits something, and where it stands         *)
(*   clients   the platform clients made so far: whose, of which platform, *)
(*             the config object their handler tests, whether they are     *)
(*             connected (live), and whether platformClients holds them    *)
(*   configs   the config objects made so far: whether channelsToTrack was *)
(*             given the channels of the platform (it is [] before)        *)
(*   out       the last response a command handler returned                *)
(*   log       per channel, every message storeMessage was given since the *)
(*             channel's platform was last cleared (history variable)      *)
(*   ncmd      the number of commands received (bounds the behaviours)     *)
(***************************************************************************)
VARIABLES users, handlers, cmds, clients, configs, out, log, ncmd

vars == <<users, handlers, cmds, clients, configs, out, log, ncmd>>

Keys == Everyone \X PlatformSet \X ChannelIds

NoResponse == [kind |-> "none"]

InitFresh ==
  /\ users = <<>>
  /\ log = [k \in Keys |-> <<>>]

\* user u1 connected for a while, its Telegram chat c1 holding n messages
InitSeeded(n) ==
  /\ users = ("u1" :> SeedUser("u1", n))
  /\ log = [k \in Keys |->
              IF k[1] = "u1" /\ MapHas(SeedHistory(n)[k[2]], k[3])
              THEN MapGet(SeedHistory(n)[k[2]], k[3]) ELSE <<>>]

\* ... and a Discord message of two minutes ago in channel c1, stored by the
\* connector as any other
ChattyMessage ==
  discordMessage("c1", [id |-> 9001, text |-> "Recent activity looks fine",
                        sec |-> NowS - 120, sub |-> 0,
                        authorId |-> "a1", authorName |-> "Ann"], 0)

InitChatty ==
  /\ users = storeMessage("u1" :> SeedUser("u1", Recent), "u1", "discord", "c1",
                          ChattyMessage)
  /\ log = [k \in Keys |->
              IF k[1] = "u1" /\ MapHas(users["u1"].messageHistory[k[2]], k[3])
              THEN MapGet(users["u1"].messageHistory[k[2]], k[3]) ELSE <<>>]

\* a user connected to Telegram alone, whose chat c2 has a title in
\* capitals beyond A-Z and three messages of half an hour ago: two written
\* in such capitals, the first of them ending in a capital sigma, and one
\* in small letters that quotes a word
AccentedMessages ==
  [i \in 1..3 |->
     [telegramMessage("c2", [id |-> 8000 + i,
                             text |-> <<"ΚΛΕΙΣΤΗ Η ΟΔΟΣ", "ÉCOLE fermée",
                                        "η λέξη \"οδοσ\"">>[i],
                             sec |-> NowS - 1800 + i, sub |-> 0,
                             authorId |-> "a1", authorName |-> "Ann"], 0)
        EXCEPT !.chatTitle = "ΟΔΟΣ ÉCOLE"]]

InitAccented ==
  /\ users = storeMessage(
               storeMessage(
                 storeMessage("u1" :> ConnectedUser("u1", {"telegram"}),
                              "u1", "telegram", "c2", AccentedMessages[1]),
                 "u1", "telegram", "c2", AccentedMessages[2]),
               "u1", "telegram", "c2", AccentedMessages[3])
  /\ log = [k \in Keys |->
              IF k[1] = "u1" /\ MapHas(users["u1"].messageHistory[k[2]], k[3])
              THEN MapGet(users["u1"].messageHistory[k[2]], k[3]) ELSE <<>>]

\* the client object disconnectPlatform tests and disconnects, and the
\* event handlers of Slack are registered on
ClientOf(platform) == IF platform = "slack" THEN "slackRtm" ELSE platform

\* the clients and the config objects of the connections of the user table
\* us, each at its slot; a slot without connection holds a closed client
\* that nothing references
InitialClients(us) ==
  [s \in 1..(3 * Len(UserOrder)) |->
     LET u == UserOrder[((s - 1) \div 3) + 1]
         platform == Platforms[((s - 1) % 3) + 1]
         on == u \in DOMAIN us /\ us[u].platformClients[ClientOf(platform)]
     IN  [user |-> u, platform |-> platform, config |-> s,
          live |-> on, held |-> on]]

\* ... the channels were assigned to the config of a connection to Discord
\* or Slack (lines 505, 557); a telegramConfig has no channelsToTrack
\* (lines 21-25, 436)
InitialConfigs(us) ==
  [s \in 1..(3 * Len(UserOrder)) |->
     LET u == UserOrder[((s - 1) \div 3) + 1]
         platform == Platforms[((s - 1) % 3) + 1]
     IN  [channelsToTrack |->
            /\ platform # "telegram"
            /\ u \in DOMAIN us
            /\ us[u].platformClients[ClientOf(platform)]]]

Idle ==
  /\ handlers = <<>>
  /\ cmds = <<>>
  /\ clients = InitialClients(users)
  /\ configs = InitialConfigs(users)
  /\ out = NoResponse
  /\ ncmd = 0

Init == (InitFresh \/ InitSeeded(Recent)) /\ Idle

\* messageHandler, lines 282-293: the user is created on the first message
ensureUser(us, userKey) ==
  IF userKey \in DOMAIN us THEN us ELSE us @@ (userKey :> newUser(userKey))

\* a connected client of user u on the platform delivers events; its
\* handler finds the channel of an event in config.channelsToTrack (tracked)
\* only when the channels were assigned to that config object
Delivers(u, platform, tracked) ==
  \E k \in 1..Len(clients) :
    /\ clients[k].user = u
    /\ clients[k].platform = platform
    /\ clients[k].live
    /\ tracked => configs[clients[k].config].channelsToTrack

RemoveAt(seq, i) == SubSeq(seq, 1, i - 1) \o SubSeq(seq, i + 1, Len(seq))


(***************************************************************************)
(* Platform event handlers.                                                *)
(***************************************************************************)
NewHandler(u, platform, c, pl, pc) ==
  [user |-> u, platform |-> platform, channelId |-> c, payload |-> pl,
   pc |-> pc, gone |-> "no"]

\* The call of storeMessage that handler n makes with message msg, with the
\* bookkeeping of the history variables: the log of the channel, and which
\* earlier delivery lost its message to the trim.
StoreStep(hs, n, msg) ==
  LET h == hs[n]
      lost == {m.seq : m \in Evicted(users, h.user, h.platform, h.channelId)}
  IN  /\ users' = storeMessage(users, h.user, h.platform, h.channelId, msg)
      /\ handlers' = [k \in 1..Len(hs) |->
                        IF k = n THEN [hs[k] EXCEPT !.pc = "stored"]
                        ELSE IF k \in lost THEN [hs[k] EXCEPT !.gone = "evicted"]
                        ELSE hs[k]]
      /\ log' = [log EXCEPT ![<<h.user, h.platform, h.channelId>>] =
                              Append(@, msg)]

\* client.addEventHandler(async (event) => ...), up to `await message.getChat()`
TelegramEvent(u, c, pl) ==
  /\ Len(handlers) < MaxEvents
  /\ Delivers(u, "telegram", FALSE)
  /\ handlers' = Append(handlers, NewHandler(u, "telegram", c, pl, "getChat"))
  /\ UNCHANGED <<users, cmds, clients, configs, out, log, ncmd>>

\* getChat() resolved; up to `await message.getSender()`
TelegramGotChat(n) ==
  /\ handlers[n].pc = "getChat"
  /\ handlers' = [handlers EXCEPT ![n].pc = "getSender"]
  /\ UNCHANGED <<users, cmds, clients, configs, out, log, ncmd>>

\* getSender() resolved: storeMessage, then the notification
TelegramGotSender(n) ==
  /\ handlers[n].pc = "getSender"
  /\ StoreStep(handlers, n,
               telegramMessage(handlers[n].channelId, handlers[n].payload, n))
  /\ UNCHANGED <<cmds, clients, configs, out, ncmd>>

\* client.on('messageCreate', ...): no await before storeMessage.  A message
\* of a bot, or of a channel that is not tracked, is ignored.
DiscordEvent(u, c, pl, bot, tracked) ==
  /\ Len(handlers) < MaxEvents
  /\ Delivers(u, "discord", tracked)
  /\ IF bot \/ ~tracked
     THEN UNCHANGED vars
     ELSE /\ StoreStep(Append(handlers, NewHandler(u, "discord", c, pl, "start")),
                       Len(handlers) + 1,
                       discordMessage(c, pl, Len(handlers) + 1))
          /\ UNCHANGED <<cmds, clients, configs, out, ncmd>>

\* rtm.on('message', ...), up to `await client.conversations.info(...)`
SlackEvent(u, c, pl, bot, tracked) ==
  /\ Len(handlers) < MaxEvents
  /\ Delivers(u, "slack", tracked)
  /\ IF pl.text = "" \/ bot \/ ~tracked
     THEN UNCHANGED vars
     ELSE /\ handlers' = Append(handlers, NewHandler(u, "slack", c, pl, "channelInfo"))
          /\ UNCHANGED <<users, cmds, clients, configs, out, log, ncmd>>

\* conversations.info resolved; up to `await client.users.info(...)`
SlackGotChannel(n) ==
  /\ handlers[n].pc = "channelInfo"
  /\ handlers' = [handlers EXCEPT ![n].pc = "userInfo"]
  /\ UNCHANGED <<users, cmds, clients, configs, out, log, ncmd>>

\* users.info resolved: storeMessage, then the notification
SlackGotUser(n) ==
  /\ handlers[n].pc = "userInfo"
  /\ StoreStep(handlers, n,
               slackMessage(handlers[n].channelId, handlers[n].payload, n))
  /\ UNCHANGED <<cmds, clients, configs, out, ncmd>>

\* an awaited platform call of handler n rejects: the handler ends there
HandlerRejected(n) ==
  /\ handlers[n].pc \in {"getChat", "getSender", "channelInfo", "userInfo"}
  /\ handlers' = [handlers EXCEPT ![n].pc = "failed"]
  /\ UNCHANGED <<users, cmds, clients, configs, out, log, ncmd>>


(***************************************************************************)
(* Commands.  Every command passes through messageHandler, which creates   *)
(* the user's entry before it dispatches.                                  *)
(***************************************************************************)

(***************************************************************************)
(* handleConnectCommand, lines 386-583.  The command awaits sendMessage,   *)
(* then setupTelegram, setupDiscord or setupSlack, and for Slack           *)
(* conversations.list, so it is a chain of segments:                       *)
(*   notify -> setup -> store (-> channels) -> response                    *)
(* Events and other commands run between the segments.                     *)
(***************************************************************************)
\* the response of a command that connects: the beginning of its text
ConnectResponse(u, platform, response) ==
  [kind |-> "connect", to |-> u, platform |-> platform,
   ok |-> response = "Successfully connected", response |-> response]

\* platformClients of the user and the platform no longer hold a client
Unhold(cs, u, platform) ==
  [k \in 1..Len(cs) |->
     IF cs[k].user = u /\ cs[k].platform = platform
     THEN [cs[k] EXCEPT !.held = FALSE] ELSE cs[k]]

\* user.platformClients[platform] = value, for Slack the two clients
setClients(us, u, platform, value) ==
  IF platform = "slack"
  THEN [us EXCEPT ![u].platformClients.slack = value,
                  ![u].platformClients.slackRtm = value]
  ELSE [us EXCEPT ![u].platformClients[platform] = value]

\* lines 390-443, 462-481, 515-534: up to `await sendMessage(...)`.  args
\* tells that the parameters of the platform were given.  The config of the
\* platform is a new object, its channelsToTrack empty.
handleConnectCommand(u, platform, args) ==
  /\ ncmd < MaxCommands
  /\ ncmd' = ncmd + 1
  /\ IF platform \notin PlatformSet \/ ~args
     THEN /\ users' = ensureUser(users, u)
          /\ out' = [kind |-> "usage", to |-> u, command |-> "connect"]
          /\ UNCHANGED <<cmds, configs>>
     ELSE /\ configs' = Append(configs, [channelsToTrack |-> FALSE])
          /\ users' = [ensureUser(users, u) EXCEPT
                         ![u][ConfigOf(platform)] = Len(configs')]
          /\ cmds' = Append(cmds, [kind |-> "connect", user |-> u,
                                   platform |-> platform, pc |-> "notify",
                                   config |-> 0, client |-> 0])
          /\ UNCHANGED out
  /\ UNCHANGED <<handlers, clients, log>>

\* sendMessage resolved: the call of setupTelegram, setupDiscord or
\* setupSlack with the config the user has now, up to the await of
\* client.start(), client.login() or rtm.start() (lines 71-86, 152-164,
\* 207-218); without config the setup returns null at once (lines 72, 153,
\* 208), and the command goes on when its await of the setup resumes
ConnectNotified(i) ==
  /\ cmds[i].kind = "connect" /\ cmds[i].pc = "notify"
  /\ LET config == users[cmds[i].user][ConfigOf(cmds[i].platform)]
     IN  cmds' = IF config = 0
                 THEN [cmds EXCEPT ![i].pc = "store"]
                 ELSE [cmds EXCEPT ![i].pc = "setup", ![i].config = config]
  /\ UNCHANGED <<users, handlers, clients, configs, out, log, ncmd>>

\* the sentence that assigns the channels to user.discordConfig or
\* user.slackConfig, the config the user has at that moment (lines 505,
\* 557); it throws when the user has none
ChannelsAssigned(c) ==
  LET config == users[c.user][ConfigOf(c.platform)]
  IN  IF config = 0
      THEN /\ out' = ConnectResponse(c.user, c.platform, "Error connecting")
           /\ UNCHANGED configs
      ELSE /\ out' = ConnectResponse(c.user, c.platform, "Successfully connected")
           /\ configs' = [configs EXCEPT ![config].channelsToTrack = TRUE]

\* client.start(), client.login() or rtm.start() resolved: the setup
\* registers its handler on the connected client and returns the client
\* (lines 99-144, 165-199, 219-265).  The client delivers events from here
\* on; the command has not stored it yet.
SetupResolved(i) ==
  /\ cmds[i].kind = "connect" /\ cmds[i].pc = "setup"
  /\ clients' = Append(clients, [user |-> cmds[i].user,
                                 platform |-> cmds[i].platform,
                                 config |-> cmds[i].config,
                                 live |-> TRUE, held |-> FALSE])
  /\ cmds' = [cmds EXCEPT ![i].pc = "store", ![i].client = Len(clients')]
  /\ UNCHANGED <<users, handlers, configs, out, log, ncmd>>

\* client.start(), client.login() or rtm.start() rejected: the setup
\* catches the error and returns null (lines 145-148, 200-203, 266-269)
SetupRejected(i) ==
  /\ cmds[i].kind = "connect" /\ cmds[i].pc = "setup"
  /\ cmds' = [cmds EXCEPT ![i].pc = "store"]
  /\ UNCHANGED <<users, handlers, clients, configs, out, log, ncmd>>

\* the await of the setup resumes in the command (lines 452-459, 490-512,
\* 543-550).  Without client the command answers that it failed.  With the
\* client it stores it over the one platformClients held (lines 455, 493,
\* 546-547); Telegram answers; Discord assigns the channels and answers;
\* Slack goes on to `await clients.client.conversations.list(...)`.
SetupReturned(i) ==
  /\ cmds[i].kind = "connect" /\ cmds[i].pc = "store"
  /\ LET c == cmds[i]
     IN  IF c.client = 0
         THEN /\ cmds' = RemoveAt(cmds, i)
              /\ out' = ConnectResponse(c.user, c.platform, "Failed to connect")
              /\ UNCHANGED <<users, clients, configs>>
         ELSE /\ clients' = [Unhold(clients, c.user, c.platform) EXCEPT
                               ![c.client].held = TRUE]
              /\ users' = setClients(users, c.user, c.platform, TRUE)
              /\ CASE c.platform = "telegram" ->
                        /\ cmds' = RemoveAt(cmds, i)
                        /\ out' = ConnectResponse(c.user, c.platform,
                                                  "Successfully connected")
                        /\ UNCHANGED configs
                   [] c.platform = "discord" ->
                        /\ cmds' = RemoveAt(cmds, i)
                        /\ ChannelsAssigned(c)
                   [] c.platform = "slack" ->
                        /\ cmds' = [cmds EXCEPT ![i].pc = "channels"]
                        /\ UNCHANGED <<configs, out>>
  /\ UNCHANGED <<handlers, log, ncmd>>

\* conversations.list resolved: lines 554-560
ChannelsListed(i) ==
  /\ cmds[i].kind = "connect" /\ cmds[i].pc = "channels"
  /\ cmds' = RemoveAt(cmds, i)
  /\ ChannelsAssigned(cmds[i])
  /\ UNCHANGED <<users, handlers, clients, log, ncmd>>

\* sendMessage or conversations.list rejected: the catch of lines 571-574
\* answers, and what the command stored before stays stored
ConnectRejected(i) ==
  /\ cmds[i].kind = "connect" /\ cmds[i].pc \in {"notify", "channels"}
  /\ cmds' = RemoveAt(cmds, i)
  /\ out' = ConnectResponse(cmds[i].user, cmds[i].platform, "Error connecting")
  /\ UNCHANGED <<users, handlers, clients, configs, log, ncmd>>

(***************************************************************************)
(* A message whose content has no text (an image, a file): line 278 gives  *)
(* text = undefined, lines 282-293 create the user's entry, and            *)
(* text.startsWith throws at line 296; the catch of lines 312-321 answers  *)
(* with the generic error response.                                        *)
(***************************************************************************)
messageWithoutText(u) ==
  /\ ncmd < MaxCommands
  /\ ncmd' = ncmd + 1
  /\ users' = ensureUser(users, u)
  /\ out' = [kind |-> "error", to |-> u]
  /\ UNCHANGED <<handlers, cmds, clients, configs, log>>

(***************************************************************************)
(* handleSetupCommand, handleHelpCommand and handleListCommand.            *)
(***************************************************************************)
\* lines 326-383: no await
handleSetupCommand(u, platform) ==
  /\ ncmd < MaxCommands
  /\ ncmd' = ncmd + 1
  /\ users' = ensureUser(users, u)
  /\ out' = IF platform = ""
            THEN [kind |-> "usage", to |-> u, command |-> "setup"]
            ELSE IF platform \in PlatformSet
            THEN [kind |-> "setup", to |-> u, platform |-> platform]
            ELSE [kind |-> "unsupported", to |-> u, platform |-> platform]
  /\ UNCHANGED <<handlers, cmds, clients, configs, log>>

\* lines 945-977
handleHelpCommand(u) ==
  /\ ncmd < MaxCommands
  /\ ncmd' = ncmd + 1
  /\ users' = ensureUser(users, u)
  /\ out' = [kind |-> "help", to |-> u]
  /\ UNCHANGED <<handlers, cmds, clients, configs, log>>

\* the marks of the channels in the list of Discord and of Slack: whether
\* the config of the user holds the channels (lines 777, 814)
ListResponse(us, u, platform) ==
  [kind |-> "list", to |-> u, platform |-> platform, connected |-> TRUE,
   channelsToTrack |-> /\ us[u][ConfigOf(platform)] # 0
                       /\ configs[us[u][ConfigOf(platform)]].channelsToTrack]

\* lines 671-837, up to `await telegramClient.getDialogs({})` or `await
\* slackClient.conversations.list(...)`; the list of Discord has no await
handleListCommand(u, platform) ==
  /\ ncmd < MaxCommands
  /\ ncmd' = ncmd + 1
  /\ users' = ensureUser(users, u)
  /\ IF platform \notin PlatformSet
     THEN /\ out' = [kind |-> "usage", to |-> u, command |-> "list"]
          /\ UNCHANGED cmds
     ELSE IF ~users'[u].platformClients[platform]
     THEN /\ out' = [kind |-> "list", to |-> u, platform |-> platform,
                     connected |-> FALSE]
          /\ UNCHANGED cmds
     ELSE IF platform = "discord"
     THEN /\ out' = ListResponse(users', u, platform)
          /\ UNCHANGED cmds
     ELSE /\ cmds' = Append(cmds, [kind |-> "list", user |-> u,
                                   platform |-> platform, pc |-> "awaitList"])
          /\ UNCHANGED out
  /\ UNCHANGED <<handlers, clients, configs, log>>

\* getDialogs or conversations.list resolved: the response (lines 719-736,
\* 802-822)
ListResolved(i) ==
  /\ cmds[i].kind = "list" /\ cmds[i].pc = "awaitList"
  /\ cmds' = RemoveAt(cmds, i)
  /\ out' = IF cmds[i].platform = "telegram"
            THEN [kind |-> "list", to |-> cmds[i].user, platform |-> "telegram",
                  connected |-> TRUE]
            ELSE ListResponse(users, cmds[i].user, cmds[i].platform)
  /\ UNCHANGED <<users, handlers, clients, configs, log, ncmd>>

\* ... rejected: the exception leaves handleListCommand and, messageHandler
\* having returned the command's promise without awaiting it (line 303),
\* its promise is rejected
ListRejected(i) ==
  /\ cmds[i].kind = "list" /\ cmds[i].pc = "awaitList"
  /\ cmds' = RemoveAt(cmds, i)
  /\ out' = [kind |-> "rejected", to |-> cmds[i].user]
  /\ UNCHANGED <<users, handlers, clients, configs, log, ncmd>>

\* the per-platform count of handleStatusCommand, lines 634-656
RECURSIVE SumLengths(_)
SumLengths(m) ==
  IF m = <<>> THEN 0 ELSE Len(Head(m).msgs) + SumLengths(Tail(m))

\* ... the total leaves the Slack count out
handleStatusCommand_withoutSlack(u) ==
  /\ ncmd < MaxCommands
  /\ ncmd' = ncmd + 1
  /\ users' = ensureUser(users, u)
  /\ LET user == users'[u]
         telegramMessages == SumLengths(user.messageHistory.telegram)
         discordMessages == SumLengths(user.messageHistory.discord)
         slackMessages == SumLengths(user.messageHistory.slack)
     IN  out' = [kind |-> "status", to |-> u,
                 connected |-> [telegram |-> user.platformClients.telegram,
                                discord |-> user.platformClients.discord,
                                slack |-> user.platformClients.slack],
                 telegram |-> telegramMessages,
                 discord |-> discordMessages,
                 slack |-> slackMessages,
                 totalMessages |-> telegramMessages + discordMessages]
  /\ UNCHANGED <<handlers, cmds, clients, configs, log>>

\* lines 587-668
handleStatusCommand(u) ==
  /\ ncmd < MaxCommands
  /\ ncmd' = ncmd + 1
  /\ users' = ensureUser(users, u)
  /\ LET user == users'[u]
         telegramMessages == SumLengths(user.messageHistory.telegram)
         discordMessages == SumLengths(user.messageHistory.discord)
         slackMessages == SumLengths(user.messageHistory.slack)
     IN  out' = [kind |-> "status", to |-> u,
                 connected |-> [telegram |-> user.platformClients.telegram,
                                discord |-> user.platformClients.discord,
                                slack |-> user.platformClients.slack],
                 telegram |-> telegramMessages,
                 discord |-> discordMessages,
                 slack |-> slackMessages,
                 totalMessages |-> telegramMessages + discordMessages + slackMessages]
  /\ UNCHANGED <<handlers, cmds, clients, configs, log>>

(***************************************************************************)
(* handleDisconnectCommand.  disconnectPlatform awaits the client's        *)
(* disconnect call, and the command awaits each disconnectPlatform, so the *)
(* command is a chain of segments:                                         *)
(*   (awaitClient ->) awaitReturn -> ... -> response                       *)
(* todo holds the platforms still to disconnect, the current one first;    *)
(* client is the client whose disconnect call the command awaits.          *)
(***************************************************************************)
\* the client that platformClients of the user holds for the platform
HeldClient(cs, u, platform) ==
  CHOOSE k \in 1..Len(cs) :
    cs[k].user = u /\ cs[k].platform = platform /\ cs[k].held

\* disconnectPlatform(platformName) up to its await, or to its return when
\* there is no client
disconnectPlatform(d, us, cs) ==
  IF us[d.user].platformClients[ClientOf(Head(d.todo))]
  THEN [d EXCEPT !.pc = "awaitClient",
                 !.client = HeldClient(cs, d.user, Head(d.todo))]
  ELSE [d EXCEPT !.pc = "awaitReturn",
                 !.said = Append(@, [platform |-> Head(d.todo), wasConnected |-> FALSE])]

\* lines 842-866 and the first call of disconnectPlatform
BeginDisconnect(u, target) ==
  /\ ncmd < MaxCommands
  /\ ncmd' = ncmd + 1
  /\ users' = ensureUser(users, u)
  /\ IF target \notin PlatformSet \cup {"all"}
     THEN /\ out' = [kind |-> "usage", to |-> u, command |-> "disconnect"]
          /\ UNCHANGED cmds
     ELSE /\ cmds' = Append(cmds,
                        disconnectPlatform(
                          [kind |-> "disconnect", user |-> u, pc |-> "start",
                           target |-> target, said |-> <<>>, client |-> 0,
                           todo |-> IF target = "all" THEN Platforms ELSE <<target>>],
                          users', clients))
          /\ UNCHANGED out
  /\ UNCHANGED <<handlers, clients, configs, log>>

\* the client's disconnect()/destroy() resolved: lines 875-877, 886-888, 897-900
ClientDisconnected(i) ==
  /\ cmds[i].kind = "disconnect" /\ cmds[i].pc = "awaitClient"
  /\ LET u == cmds[i].user
         platform == Head(cmds[i].todo)
     IN  /\ users' = [setClients(users, u, platform, FALSE) EXCEPT
                        ![u][ConfigOf(platform)] = 0]
         /\ clients' = [Unhold(clients, u, platform) EXCEPT
                          ![cmds[i].client].live = FALSE]
         /\ cmds' = [cmds EXCEPT ![i].pc = "awaitReturn",
                                 ![i].said = Append(@, [platform |-> platform,
                                                        wasConnected |-> TRUE])]
  /\ UNCHANGED <<handlers, configs, out, log, ncmd>>

\* the client's disconnect()/destroy() rejected: the exception leaves
\* disconnectPlatform and handleDisconnectCommand; nothing is cleared
\* and, messageHandler having returned the command's promise without
\* awaiting it (line 307), the catch of lines 314-323 is not entered: the
\* promise of messageHandler is rejected and no response is produced
ClientDisconnectFailed(i) ==
  /\ cmds[i].kind = "disconnect" /\ cmds[i].pc = "awaitClient"
  /\ cmds' = RemoveAt(cmds, i)
  /\ out' = [kind |-> "rejected", to |-> cmds[i].user]
  /\ UNCHANGED <<users, handlers, clients, configs, log, ncmd>>

\* user.messageHistory[platform] = new Map(), for the platforms in ps
clearHistory_keep(us, u, ps) == us

\* ... the single-platform branch replaces all three maps as well
clearHistory_all(us, u, ps) ==
  [us EXCEPT ![u].messageHistory =
     [telegram |-> NewMap, discord |-> NewMap, slack |-> NewMap]]

clearHistory(us, u, ps) ==
  [us EXCEPT ![u].messageHistory =
     [telegram |-> IF "telegram" \in ps THEN NewMap ELSE @.telegram,
      discord  |-> IF "discord" \in ps THEN NewMap ELSE @.discord,
      slack    |-> IF "slack" \in ps THEN NewMap ELSE @.slack]]

\* what the clear of `/disconnect target` replaces
ClearedPlatforms(target) == IF target = "all" THEN PlatformSet ELSE {target}

\* an awaited disconnectPlatform returned: the next platform of
\* `/disconnect all` (lines 913-915), or the clear and the response
\* (lines 917-941)
DisconnectReturned(i) ==
  /\ cmds[i].kind = "disconnect" /\ cmds[i].pc = "awaitReturn"
  /\ IF Len(cmds[i].todo) > 1
     THEN /\ cmds' = [cmds EXCEPT ![i] =
                        disconnectPlatform([cmds[i] EXCEPT !.todo = Tail(@)],
                                           users, clients)]
          /\ UNCHANGED <<users, handlers, out, log>>
     ELSE LET u == cmds[i].user
              ps == ClearedPlatforms(cmds[i].target)
          IN  /\ users' = clearHistory(users, u, ps)
              /\ handlers' = [k \in 1..Len(handlers) |->
                                IF /\ handlers[k].user = u
                                   /\ handlers[k].platform \in ps
                                   /\ handlers[k].pc = "stored"
                                   /\ handlers[k].gone = "no"
                                THEN [handlers[k] EXCEPT !.gone = "cleared"]
                                ELSE handlers[k]]
              /\ log' = [k \in Keys |->
                           IF k[1] = u /\ k[2] \in ps THEN <<>> ELSE log[k]]
              /\ out' = [kind |-> "disconnect", to |-> u,
                         target |-> cmds[i].target, said |-> cmds[i].said]
              /\ cmds' = RemoveAt(cmds, i)
  /\ UNCHANGED <<clients, configs, ncmd>>


(***************************************************************************)
(* Strings.  A string is a sequence of characters; a character is a string *)
(* of length one.                                                          *)
(***************************************************************************)
\* the characters of a string
CharsOf(s) == {SubSeq(s, i, i) : i \in 1..Len(s)}

\* String.prototype.toLowerCase is modelled on the strings over Alphabet,
\* the characters listed here with what toLowerCase does to them.  For any
\* other character LowerChar is not defined, and so toLowerCase is not
\* defined for a string that holds one: the queries, texts, channel names,
\* keywords and hints that the model lowers are strings over Alphabet.
\*
\* UpperCase holds capital letters and LowerCase, place by place, the small
\* letters toLowerCase changes them to; the first 26 places are A-Z and a-z.
UpperCase ==
  "ABCDEFGHIJKLMNOPQRSTUVWXYZÀÁÂÃÄÅÆÇÈÉÊËÌÍÎÏÐÑÒÓÔÕÖØÙÚÛÜÝÞƂƄƇƋ" \o
  "ƎƑƘƠƢƤƦƧƩƬƮƯƱƲƳƵƷƸƼǄǅǇǈǊǋǍǏǑǓǕǗǙǛǞǠǢǤǦǨǪǬǮǱǲǴǶǷǸǺǼǾΆΈΉΊΌΎΏΑΒ" \o
  "ΓΔΕΖΗΘΙΚΛΜΝΞΟΠΡΣΤΥΦΧΨΩΪΫϏϘϚϜϞϠϢϤϦϨϪϬϮϴϷϹϺҀҊҌҎҐҒҔҖҘҚҜҞҠҢҤҦҨҪҬ" \o
  "ҮҰҲҴҶҸҺҼҾӀӁӃӅӇӉӋӍӐӒӔӖӘӚӜӞӠӢӤӦӨӪӬӮӰӲӴӶӸӺӼӾᎰᎱᎲᎳᎴᎵᎶᎷᎸᎹᎺᎻᎼᎽᎾᎿᏀᏁᏂ" \o
  "ᏃᏄᏅᏆᏇᏈᏉᏊᏋᏌᏍᏎᏏᏐᏑᏒᏓᏔᏕᏖᏗᏘᏙᏚᏛᏜᏝᏞᏟᏠᏡᏢᏣᏤᏥᏦᏧᏨᏩᏪᏫᏬᏭᏮᏯᏰᏱᏲᏳᏴᏵᲐᲑᲒᲓᲔᲕᲖᲗᲘ" \o
  "ᲙᲚᲛᲜᲝᲞᲟᲠᲡᲢᲣᲤᲥᲦᲧᲨᲩᲪᲫᲬᲭᲮᲯᲰᲱᲲᲳᲴᲵᲶᲷᲸᲹᲺᲽᲾᲿẀẂẄẆẈẊẌẎẐẒẔẞẠẢẤẦẨẪẬẮẰẲẴ" \o
  "ẶẸẺẼẾỀỂỄỆỈỊỌỎỐỒỔỖỘỚỜỞỠỢỤỦỨỪỬỮỰỲỴỶỸỺỼỾᾈᾉᾊᾋᾌᾍᾎᾏᾘᾙᾚᾛᾜᾝᾞᾟᾨᾩᾪᾫᾬᾭᾮ" \o
  "ᾯᾸᾹᾼῌῘῙῨῩῬῼↃⒶⒷⒸⒹⒺⒻⒼⒽⒾⒿⓀⓁⓂⓃⓄⓅⓆⓇⓈⓉⓊⓋⓌⓍⓎⓏⲀⲂⲄⲆⲈⲊⲌⲎⲐⲒⲔⲖⲘⲚⲜⲞⲠⲢⲤⲦⲨⲪ" \o
  "ⲬⲮⲰⲲⲴⲶⲸⲺⲼⲾⳀⳂⳄⳆⳈⳊⳌⳎⳐⳒⳔⳖⳘⳚⳜⳞⳠⳢⳫⳭⳲꚀꚂꚄꚆꚈꚊꚌꚎꚐꚒꚔꚖꚘꚚꞀꞂꞄꞆꞋꞐꞒꞖꞘꞚꞜꞞꞠꞢꞤ" \o
  "ꞦꞨꞰꞱꞲꞴꞶꞸꞺꞼꞾꟀꟂꟄꟅꟆꟇꟉꟐꟖꟘꟵ"

LowerCase ==
  "abcdefghijklmnopqrstuvwxyzàáâãäåæçèéêëìíîïðñòóôõöøùúûüýþƃƅƈƌ" \o
  "ǝƒƙơƣƥʀƨʃƭʈưʊʋƴƶʒƹƽǆǆǉǉǌǌǎǐǒǔǖǘǚǜǟǡǣǥǧǩǫǭǯǳǳǵƕƿǹǻǽǿάέήίόύώαβ" \o
  "γδεζηθικλμνξοπρστυφχψωϊϋϗϙϛϝϟϡϣϥϧϩϫϭϯθϸϲϻҁҋҍҏґғҕҗҙқҝҟҡңҥҧҩҫҭ" \o
  "үұҳҵҷҹһҽҿӏӂӄӆӈӊӌӎӑӓӕӗәӛӝӟӡӣӥӧөӫӭӯӱӳӵӷӹӻӽӿꮀꮁꮂꮃꮄꮅꮆꮇꮈꮉꮊꮋꮌꮍꮎꮏꮐꮑꮒ" \o
  "ꮓꮔꮕꮖꮗꮘꮙꮚꮛꮜꮝꮞꮟꮠꮡꮢꮣꮤꮥꮦꮧꮨꮩꮪꮫꮬꮭꮮꮯꮰꮱꮲꮳꮴꮵꮶꮷꮸꮹꮺꮻꮼꮽꮾꮿᏸᏹᏺᏻᏼᏽაბგდევზთი" \o
  "კლმნოპჟრსტუფქღყშჩცძწჭხჯჰჱჲჳჴჵჶჷჸჹჺჽჾჿẁẃẅẇẉẋẍẏẑẓẕßạảấầẩẫậắằẳẵ" \o
  "ặẹẻẽếềểễệỉịọỏốồổỗộớờởỡợụủứừửữựỳỵỷỹỻỽỿᾀᾁᾂᾃᾄᾅᾆᾇᾐᾑᾒᾓᾔᾕᾖᾗᾠᾡᾢᾣᾤᾥᾦ" \o
  "ᾧᾰᾱᾳῃῐῑῠῡῥῳↄⓐⓑⓒⓓⓔⓕⓖⓗⓘⓙⓚⓛⓜⓝⓞⓟⓠⓡⓢⓣⓤⓥⓦⓧⓨⓩⲁⲃⲅⲇⲉⲋⲍⲏⲑⲓⲕⲗⲙⲛⲝⲟⲡⲣⲥⲧⲩⲫ" \o
  "ⲭⲯⲱⲳⲵⲷⲹⲻⲽⲿⳁⳃⳅⳇⳉⳋⳍⳏⳑⳓⳕⳗⳙⳛⳝⳟⳡⳣⳬⳮⳳꚁꚃꚅꚇꚉꚋꚍꚏꚑꚓꚕꚗꚙꚛꞁꞃꞅꞇꞌꞑꞓꞗꞙꞛꞝꞟꞡꞣꞥ" \o
  "ꞧꞩʞʇʝꞵꞷꞹꞻꞽꞿꟁꟃꞔʂᶎꟈꟊꟑꟗꟙꟶ"

\* the letters that have a case: the capitals, their small letters, and
\* small letters that are no capital's small letter in the table
Cased == CharsOf(UpperCase) \cup CharsOf(LowerCase) \cup CharsOf("ªµºÿς")

\* the case-ignorable characters of Alphabet: apostrophe, full stop, colon,
\* circumflex, diaeresis, soft hyphen (U+00AD), macron, acute, middle dot,
\* cedilla and the byte order mark (U+FEFF)
Ignorable == CharsOf("'.:^¨­¯´·¸﻿")

\* ... and the characters that have no case and are not case-ignorable:
\* tab, line feed, form feed, carriage return, vertical tab (U+000B), the
\* rest of ASCII but for the backquote, the rest of Latin-1 from the
\* no-break space (U+00A0) on, and the ogham space mark (U+1680)
Alphabet ==
  Cased \cup Ignorable \cup
  CharsOf("\t\n\f\r !\"#$%&()*+,-/0123456789;<=>?@[\\]_{|}~" \o
          " ¡¢£¤¥¦§©«¬®°±²³¶¹»¼½¾¿×÷ ")

SmallLetter ==
  [ch \in Alphabet |->
     IF ch \in CharsOf(UpperCase)
     THEN LET i == CHOOSE i \in 1..Len(UpperCase) : SubSeq(UpperCase, i, i) = ch
          IN  SubSeq(LowerCase, i, i)
     ELSE ch]

LowerChar(ch) == SmallLetter[ch]

\* The one letter toLowerCase maps by its place: a capital sigma that ends
\* a word becomes the final sigma.  It ends a word when the nearest
\* character before it that is not case-ignorable is a cased letter and the
\* nearest one after it is not.
\*
\* the place of the nearest character of s before (step = -1) or after
\* (step = 1) place i that is not case-ignorable, or 0
RECURSIVE nearestLetter(_, _, _)
nearestLetter(s, i, step) ==
  LET j == i + step
  IN  IF j < 1 \/ j > Len(s) THEN 0
      ELSE IF SubSeq(s, j, j) \in Ignorable THEN nearestLetter(s, j, step)
      ELSE j

casedAt(s, j) == j # 0 /\ SubSeq(s, j, j) \in Cased

finalSigma(s, i) ==
  /\ SubSeq(s, i, i) = "Σ"
  /\ casedAt(s, nearestLetter(s, i, -1))
  /\ ~casedAt(s, nearestLetter(s, i, 1))

RECURSIVE lowerFrom(_, _)
lowerFrom(s, i) ==
  IF i > Len(s) THEN ""
  ELSE (IF finalSigma(s, i) THEN "ς" ELSE LowerChar(SubSeq(s, i, i)))
       \o lowerFrom(s, i + 1)

\* String.prototype.toLowerCase
toLowerCase(s) == lowerFrom(s, 1)

\* String.prototype.includes
includes(s, k) ==
  \E i \in 1..(Len(s) - Len(k) + 1) : SubSeq(s, i, i + Len(k) - 1) = k

\* the first position >= i at which character ch stands in s, or 0
RECURSIVE IndexFrom(_, _, _)
IndexFrom(s, ch, i) ==
  IF i > Len(s) THEN 0
  ELSE IF SubSeq(s, i, i) = ch THEN i ELSE IndexFrom(s, ch, i + 1)

\* the characters of the class that line 1063 replaces by "", but for the
\* backquote, which no string of the model contains
Punctuation ==
  {".", ",", "/", "#", "!", "$", "%", "^", "&", "*", ";", ":", "{", "}",
   "=", "-", "_", "~", "(", ")"}

RECURSIVE stripPunctuation(_)
stripPunctuation(s) ==
  IF s = "" THEN ""
  ELSE (IF Head(s) \in Punctuation THEN "" ELSE Head(s))
       \o stripPunctuation(Tail(s))

\* the characters of the class \s that a string of the model can hold: the
\* space, the tab, the line feed, the carriage return, the form feed, and,
\* written as themselves, the vertical tab (U+000B), the no-break space
\* (U+00A0), the ogham space mark (U+1680) and the byte order mark (U+FEFF).
\* The class also holds U+2000 to U+200A, U+2028, U+2029, U+202F, U+205F and
\* U+3000, which no string of the model contains.
WhiteSpace ==
  {" ", "\t", "\n", "\r", "\f", "", " ", " ", "﻿"}

\* .split(/\s+/): cur is the token being read, inSpace tells that the
\* character before was white space

RECURSIVE splitFrom(_, _, _)
splitFrom(s, cur, inSpace) ==
  IF s = "" THEN <<cur>>
  ELSE IF Head(s) \in WhiteSpace
       THEN IF inSpace THEN splitFrom(Tail(s), cur, TRUE)
            ELSE <<cur>> \o splitFrom(Tail(s), "", TRUE)
       ELSE splitFrom(Tail(s), cur \o Head(s), FALSE)

splitWhiteSpace(s) == splitFrom(s, "", FALSE)

(***************************************************************************)
(* The interpretation of a query, handleUserQuery lines 1012-1083.         *)
(***************************************************************************)
platformKeywords ==
  [telegram |-> <<"telegram", "tg">>,
   discord  |-> <<"discord", "dc", "server">>,
   slack    |-> <<"slack", "sl">>]

TimeRanges == <<"recent", "today", "yesterday", "thisWeek">>

timeKeywords ==
  [recent    |-> <<"recent", "latest", "last", "newest">>,
   today     |-> <<"today", "this day">>,
   yesterday |-> <<"yesterday", "past day">>,
   thisWeek  |-> <<"this week", "past week", "last 7 days">>]

commonWords ==
  {
    "the", "and", "a", "an", "in", "on", "at", "from",
    "to", "with", "by", "about", "for", "of", "as", "what",
    "who", "when", "where", "why", "how", "did", "does", "do",
    "is", "are", "was", "were", "be", "been", "being", "have",
    "has", "had", "can", "could", "will", "would", "shall", "should",
    "may", "might", "must", "that", "this", "these", "those", "it",
    "they", "them", "their", "there", "show", "tell", "find", "get",
    "see", "look", "search"
  }

\* keywords.some(keyword => query.toLowerCase().includes(keyword))
someIncluded(keywords, query) ==
  LET lowered == toLowerCase(query)
  IN  \E i \in 1..Len(keywords) : includes(lowered, keywords[i])

\* lines 1027-1033: the platforms with a keyword in the query
namedPlatforms(query) ==
  SelectSeq(Platforms, LAMBDA p : someIncluded(platformKeywords[p], query))

\* ... the platforms are searched from the last to the first
platformsToSearch_lastFirst(named, platformClients) ==
  LET found == IF Len(named) = 0
               THEN SelectSeq(Platforms, LAMBDA p : platformClients[p])
               ELSE named
  IN  [i \in 1..Len(found) |-> found[Len(found) + 1 - i]]

\* lines 1036-1040: with no platform named, the connected platforms
platformsToSearch(named, platformClients) ==
  IF Len(named) = 0
  THEN SelectSeq(Platforms, LAMBDA p : platformClients[p])
  ELSE named

\* ... the loop has no break: the last range with a keyword wins
detectTimeRange_lastWins(query) ==
  LET hits == SelectSeq(TimeRanges,
                        LAMBDA r : someIncluded(timeKeywords[r], query))
  IN  IF Len(hits) = 0 THEN "recent" ELSE hits[Len(hits)]

\* lines 1043-1050: the first range of timeKeywords with a keyword in the query
detectTimeRange(query) ==
  LET hits == SelectSeq(TimeRanges,
                        LAMBDA r : someIncluded(timeKeywords[r], query))
  IN  IF Len(hits) = 0 THEN "recent" ELSE Head(hits)

\* lines 1062-1065
queryWords(query) ==
  SelectSeq(splitWhiteSpace(stripPunctuation(toLowerCase(query))),
            LAMBDA word : Len(word) > 2 /\ word \notin commonWords)


\* the characters of [a-zA-Z0-9_-]
Digits == {"0", "1", "2", "3", "4", "5", "6", "7", "8", "9"}

IsNameChar(ch) ==
  \/ ch \in CharsOf(SubSeq(UpperCase, 1, 26)) \cup CharsOf(SubSeq(LowerCase, 1, 26))
  \/ ch \in Digits \cup {"_", "-"}

\* the last position of the run of name characters that starts at i
\* (i - 1 when there is none)
RECURSIVE nameEnd(_, _)
nameEnd(s, i) ==
  IF i <= Len(s) /\ IsNameChar(SubSeq(s, i, i)) THEN nameEnd(s, i + 1) ELSE i - 1

\* query.match(/#([a-zA-Z0-9_-]+)/g) with the '#' cut off, lines 1071-1076
RECURSIVE hashMentions(_, _)
hashMentions(s, i) ==
  IF i > Len(s) THEN <<>>
  ELSE IF SubSeq(s, i, i) = "#" /\ nameEnd(s, i + 1) > i
       THEN <<SubSeq(s, i + 1, nameEnd(s, i + 1))>>
            \o hashMentions(s, nameEnd(s, i + 1) + 1)
       ELSE hashMentions(s, i + 1)

\* the exec loop over /"([^"]+)"|'([^']+)'/g, lines 1079-1083
RECURSIVE quotedMentions(_, _)
quotedMentions(s, i) ==
  IF i > Len(s) THEN <<>>
  ELSE LET ch == SubSeq(s, i, i)
           j  == IndexFrom(s, ch, i + 1)
       IN  IF ch \in {"\"", "'"} /\ j > i + 1
           THEN <<SubSeq(s, i + 1, j - 1)>> \o quotedMentions(s, j + 1)
           ELSE quotedMentions(s, i + 1)

\* ... the hints are taken from the lowercased query
channelMentions_lowered(query) ==
  hashMentions(toLowerCase(query), 1) \o quotedMentions(toLowerCase(query), 1)

\* lines 1067-1083
channelMentions(query) == hashMentions(query, 1) \o quotedMentions(query, 1)

(***************************************************************************)
(* searchMessages, lines 1086-1207.  The cutoffs of today, yesterday and   *)
(* thisWeek are computed with the Date methods of local time (setHours,    *)
(* setDate), so they depend on the time zone of the process.  A zone is    *)
(* its offset from UTC (local = UTC + offset, in ms) before and from an    *)
(* instant of change; a zone without daylight saving has one offset.       *)
(***************************************************************************)
UTC == [base |-> 0, change |-> 0, after |-> 0]

offsetAt(zone, t) == IF t < zone.change THEN zone.base ELSE zone.after

\* LocalTime(t) of ECMAScript
localTime(zone, t) == t + offsetAt(zone, t)

\* UTC(t) of ECMAScript: a local time the change skips or repeats is read
\* with the offset before the change
utcOf(zone, local) ==
  IF local - zone.base < zone.change THEN local - zone.base
  ELSE IF local - zone.after >= zone.change THEN local - zone.after
  ELSE local - zone.base

\* date.setHours(0, 0, 0, 0): the start of the local day of t
localMidnight(zone, t) ==
  utcOf(zone, localTime(zone, t) - (localTime(zone, t) % DAY_MS))

\* date.setDate(date.getDate() - n): the same local time n days earlier
daysEarlier(zone, t, n) == utcOf(zone, localTime(zone, t) - n * DAY_MS)

\* lines 1106-1127, in a process of the given time zone
cutoffTimeIn(zone, timeRange, now) ==
  CASE timeRange = "today"     -> localMidnight(zone, now)
    [] timeRange = "yesterday" -> localMidnight(zone, daysEarlier(zone, now, 1))
    [] timeRange = "thisWeek"  -> daysEarlier(zone, now, 7)
    [] OTHER                   -> now - 24 * 60 * 60 * 1000

\* a local day of UTC starts at a multiple of DAY_MS
startOfDay(t) == t - (t % DAY_MS)

\* lines 1106-1127 in a process whose time zone is UTC, as the behaviours
\* of the bot are taken to be
cutoffTime(timeRange, now) == cutoffTimeIn(UTC, timeRange, now)

messageTimestamp(platform, message) ==
  IF platform = "telegram" THEN message.date * 1000 ELSE message.timestamp

messageText(platform, message) ==
  IF platform = "discord" THEN message.content ELSE message.text

channelNameOf(platform, messages) ==
  IF platform = "telegram" THEN messages[1].chatTitle ELSE messages[1].channelName

\* ... the cutoff is an upper bound: the messages before it match
messageMatches_beforeCutoff(platform, message, keywords, cutoff) ==
  /\ messageTimestamp(platform, message) < cutoff
  /\ \/ Len(keywords) = 0
     \/ LET text == toLowerCase(messageText(platform, message))
        IN  \E i \in 1..Len(keywords) : includes(text, toLowerCase(keywords[i]))

\* ... no keyword test: every message of the time range matches
messageMatches_timeOnly(platform, message, keywords, cutoff) ==
  ~(messageTimestamp(platform, message) < cutoff)

\* lines 1169-1192
messageMatches(platform, message, keywords, cutoff) ==
  /\ ~(messageTimestamp(platform, message) < cutoff)
  /\ \/ Len(keywords) = 0
     \/ LET text == toLowerCase(messageText(platform, message))
        IN  \E i \in 1..Len(keywords) : includes(text, toLowerCase(keywords[i]))

\* lines 1135-1153
channelHinted(platform, entry, channelHints) ==
  /\ Len(entry.msgs) # 0
  /\ LET channelName == toLowerCase(channelNameOf(platform, entry.msgs))
     IN  \E i \in 1..Len(channelHints) :
           \/ includes(channelName, toLowerCase(channelHints[i]))
           \/ entry.id = channelHints[i]

searchMessagesIn(zone, user, platform, keywords, channelHints, timeRange, now) ==
  LET cutoff == cutoffTimeIn(zone, timeRange, now)
      platformHistory == user.messageHistory[platform]
      channelsToSearch ==
        IF Len(channelHints) > 0
        THEN SelectSeq(platformHistory,
                       LAMBDA e : channelHinted(platform, e, channelHints))
        ELSE platformHistory
      found == [i \in 1..Len(channelsToSearch) |->
                 IF Len(channelsToSearch[i].msgs) = 0
                 THEN [messages |-> <<>>,
                       channelInfo |-> [id |-> channelsToSearch[i].id, name |-> ""]]
                 ELSE [messages |->
                         SelectSeq(channelsToSearch[i].msgs,
                                   LAMBDA m : messageMatches(platform, m, keywords, cutoff)),
                       channelInfo |->
                         [id |-> channelsToSearch[i].id,
                          name |-> channelNameOf(platform, channelsToSearch[i].msgs)]]]
  IN  SelectSeq(found, LAMBDA r : Len(r.messages) > 0)

\* searchMessages in a process whose time zone is UTC
searchMessages(user, platform, keywords, channelHints, timeRange, now) ==
  searchMessagesIn(UTC, user, platform, keywords, channelHints, timeRange, now)


(***************************************************************************)
(* The formatting of the results, lines 1219-1312.  The response text is   *)
(* kept as the sequence of the pieces appended to it.                      *)
(***************************************************************************)
\* Array.prototype.sort is stable: with the comparator timestampB - timestampA
\* an element stays behind the earlier elements that are not older than it
\* ... a sort that is not stable: a message goes in front of the earlier
\* messages of the same timestamp
RECURSIVE insertNewestFirst_tiesReversed(_, _, _)
insertNewestFirst_tiesReversed(platform, sorted, m) ==
  IF sorted = <<>> THEN <<m>>
  ELSE IF messageTimestamp(platform, Head(sorted)) > messageTimestamp(platform, m)
       THEN <<Head(sorted)>> \o insertNewestFirst_tiesReversed(platform, Tail(sorted), m)
       ELSE <<m>> \o sorted

RECURSIVE insertNewestFirst(_, _, _)
insertNewestFirst(platform, sorted, m) ==
  IF sorted = <<>> THEN <<m>>
  ELSE IF messageTimestamp(platform, Head(sorted)) >= messageTimestamp(platform, m)
       THEN <<Head(sorted)>> \o insertNewestFirst(platform, Tail(sorted), m)
       ELSE <<m>> \o sorted

RECURSIVE sortNewestFirst(_, _)
sortNewestFirst(platform, messages) ==
  IF messages = <<>> THEN <<>>
  ELSE insertNewestFirst(platform,
                         sortNewestFirst(platform, SubSeq(messages, 1, Len(messages) - 1)),
                         messages[Len(messages)])

\* formatMessage and the timestamp of the line, lines 1230-1250 and 1291-1296
messageLine(platform, message) ==
  [t |-> "message",
   timestamp |-> messageTimestamp(platform, message),
   name |-> IF platform = "telegram" THEN message.senderName
            ELSE IF platform = "discord" THEN message.authorName
            ELSE message.userName,
   text |-> messageText(platform, message)]

\* ... the loops have no break
budgetSpent_never(totalMessagesDisplayed) == FALSE

\* the test of lines 1259 and 1266
budgetSpent(totalMessagesDisplayed) ==
  totalMessagesDisplayed >= MAX_MESSAGES_TO_DISPLAY

\* ... slice(0, MAX_MESSAGES_TO_DISPLAY): the budget is per channel
messagesToShow_perChannel(sortedMessages, totalMessagesDisplayed) ==
  SubSeq(sortedMessages, 1, Min(Len(sortedMessages), MAX_MESSAGES_TO_DISPLAY))

\* line 1287
messagesToShow(sortedMessages, totalMessagesDisplayed) ==
  SubSeq(sortedMessages, 1,
         Min(Len(sortedMessages), MAX_MESSAGES_TO_DISPLAY - totalMessagesDisplayed))

\* the loop of lines 1264-1301 over the channels of one platform
RECURSIVE formatChannels(_, _, _)
formatChannels(platform, platformResults, totalMessagesDisplayed) ==
  IF platformResults = <<>> \/ budgetSpent(totalMessagesDisplayed)
  THEN [lines |-> <<>>, displayed |-> totalMessagesDisplayed]
  ELSE LET result == Head(platformResults)
           shown == messagesToShow(sortNewestFirst(platform, result.messages),
                                   totalMessagesDisplayed)
           rest == formatChannels(platform, Tail(platformResults),
                                  totalMessagesDisplayed + Len(shown))
       IN  [lines |-> <<[t |-> "channel", name |-> result.channelInfo.name]>>
                      \o [i \in 1..Len(shown) |-> messageLine(platform, shown[i])]
                      \o <<[t |-> "separator"]>>
                      \o rest.lines,
            displayed |-> rest.displayed]

\* the loop of lines 1257-1302 over the platforms with results
RECURSIVE formatPlatforms(_, _)
formatPlatforms(searchResults, totalMessagesDisplayed) ==
  IF searchResults = <<>> \/ budgetSpent(totalMessagesDisplayed)
  THEN [lines |-> <<>>, displayed |-> totalMessagesDisplayed]
  ELSE LET channels == formatChannels(Head(searchResults).platform,
                                      Head(searchResults).results,
                                      totalMessagesDisplayed)
           rest == formatPlatforms(Tail(searchResults), channels.displayed)
       IN  [lines |-> <<[t |-> "platform", platform |-> Head(searchResults).platform]>>
                      \o channels.lines \o rest.lines,
            displayed |-> rest.displayed]

\* lines 1305-1307
RECURSIVE countMessages(_)
countMessages(results) ==
  IF results = <<>> THEN 0
  ELSE Len(Head(results).messages) + countMessages(Tail(results))

RECURSIVE totalMessagesOf(_)
totalMessagesOf(searchResults) ==
  IF searchResults = <<>> THEN 0
  ELSE countMessages(Head(searchResults).results)
       + totalMessagesOf(Tail(searchResults))

\* ... no test of results.length: a platform without result has an entry
searchAll_keepEmpty(user, platforms, keywords, channelHints, timeRange, nows) ==
  [i \in 1..Len(platforms) |->
     [platform |-> platforms[i],
      results |-> searchMessages(user, platforms[i], keywords,
                                 channelHints, timeRange, nows[i])]]

\* lines 1209-1217: the platforms searched, in order, without those that
\* have no result.  Every call of searchMessages reads the clock anew (lines
\* 1107-1119): nows[i] is the reading of the call for platforms[i].
searchAll(user, platforms, keywords, channelHints, timeRange, nows) ==
  SelectSeq([i \in 1..Len(platforms) |->
               [platform |-> platforms[i],
                results |-> searchMessages(user, platforms[i], keywords,
                                           channelHints, timeRange, nows[i])]],
            LAMBDA e : Len(e.results) > 0)

\* lines 1209-1217 in a process of the given time zone
searchAllIn(zone, user, platforms, keywords, channelHints, timeRange, nows) ==
  SelectSeq([i \in 1..Len(platforms) |->
               [platform |-> platforms[i],
                results |-> searchMessagesIn(zone, user, platforms[i], keywords,
                                             channelHints, timeRange, nows[i])]],
            LAMBDA e : Len(e.results) > 0)

(***************************************************************************)
(* The queries and clock readings of the behaviours.                       *)
(***************************************************************************)
Queries ==
  { "show me",
    "show me dc sl",
    "any bug today in telegram",
    "Deploy #general or 'Project Team' this week",
    "recent discord activity",
    "bug dc tg" }

\* the queries of the behaviours of the whole system
SystemQueries == {"show me", "any bug today in telegram", "bug dc tg"}

\* the readings of the clock during one command: one for each call of
\* searchMessages, none earlier than the one before
Readings(clocks) ==
  {r \in clocks \X clocks \X clocks : r[1] <= r[2] /\ r[2] <= r[3]}

\* clock readings: 10:00 of a day, and the start of the next day
Clocks == {NowS * 1000, (NowS + 14 * 3600) * 1000}

SystemClocks == {NowS * 1000}

\* the sizes of the Telegram chat c1 in the stores that are queried
SeedSizes == {2, 12, 13, 14, 15, 17, 19, 20, Recent, FreshCount + 5, Backlog}

\* lines 1012-1083 for one query
interpret(query) ==
  [platforms |-> namedPlatforms(query),
   timeRange |-> detectTimeRange(query),
   queryWords |-> queryWords(query),
   channelMentions |-> channelMentions(query)]

\* the interpretations of the queries of the model, computed once
Interpretation == [q \in Queries |-> interpret(q)]

\* ... the note whenever the budget was reached
trailingNote_atLeast(totalMessages, totalMessagesDisplayed) ==
  IF totalMessages >= MAX_MESSAGES_TO_DISPLAY
  THEN <<[t |-> "note", shown |-> totalMessagesDisplayed, total |-> totalMessages]>>
  ELSE <<>>

\* lines 1309-1311: the note that ends a truncated response
trailingNote(totalMessages, totalMessagesDisplayed) ==
  IF totalMessages > totalMessagesDisplayed
  THEN <<[t |-> "note", shown |-> totalMessagesDisplayed, total |-> totalMessages]>>
  ELSE <<>>

\* lines 1012-1312: the response once a platform is known to be connected
searchResponse(user, query, nows) ==
  LET parsed == Interpretation[query]
      searchResults ==
        searchAll(user, platformsToSearch(parsed.platforms, user.platformClients),
                  parsed.queryWords, parsed.channelMentions,
                  parsed.timeRange, nows)
      body == formatPlatforms(searchResults, 0)
      totalMessages == totalMessagesOf(searchResults)
  IN  IF Len(searchResults) = 0
      THEN [kind |-> "noMatch", to |-> user.userId, query |-> query, nows |-> nows]
      ELSE [kind |-> "results", to |-> user.userId, query |-> query, nows |-> nows,
            lines |-> body.lines
                      \o trailingNote(totalMessages, body.displayed)]

\* lines 995-999
anyConnected(user) ==
  \/ user.platformClients.telegram
  \/ user.platformClients.discord
  \/ user.platformClients.slack

\* the response of handleUserQuery for a user with an entry; nows holds the
\* readings of the clock that the calls of searchMessages make, in order
queryResponse(user, query, nows) ==
  IF ~anyConnected(user)
  THEN [kind |-> "notConnected", to |-> user.userId, query |-> query, nows |-> nows]
  ELSE searchResponse(user, query, nows)

\* the text of a response of handleUserQuery that carries no result: the
\* whole text of line 1005, and the first sentence of the text of line 1223
TextOf(resp) ==
  CASE resp.kind = "notConnected" ->
         "You are not connected to any messaging platforms. Use /setup to get started."
    [] resp.kind = "noMatch" ->
         "I couldn't find any messages matching your query \"" \o resp.query \o "\"."

\* ... an await between the search and the formatting: a waiting handler
\* stores its message in between, and the note counts what the lines missed
tornResponse(userAtSearch, userAtFormat, query, nows) ==
  LET a == queryResponse(userAtSearch, query, nows)
      b == queryResponse(userAtFormat, query, nows)
  IN  IF a.kind = "results" /\ b.kind = "results"
      THEN [a EXCEPT !.lines = SelectSeq(a.lines, LAMBDA l : l.t # "note")
                               \o SelectSeq(b.lines, LAMBDA l : l.t = "note")]
      ELSE b

handleUserQuery_torn(u, query, nows) ==
  /\ ncmd < MaxCommands
  /\ ncmd' = ncmd + 1
  /\ \E n \in 1..Len(handlers) :
       /\ handlers[n].user = u
       /\ handlers[n].pc \notin {"stored", "failed"}
       /\ LET h == handlers[n]
              atSearch == ensureUser(users, u)
          IN  /\ users' = storeMessage(atSearch, u, h.platform, h.channelId,
                                       MessageOf(h, n))
              /\ handlers' = [handlers EXCEPT ![n].pc = "stored"]
              /\ log' = [log EXCEPT ![<<u, h.platform, h.channelId>>] =
                                      Append(@, MessageOf(h, n))]
              /\ out' = tornResponse(atSearch[u], users'[u], query, nows)
  /\ UNCHANGED <<cmds, clients, configs>>

\* ... the sort without the copy, on the arrays of the store
handleUserQuery_sortInPlace(u, query, nows) ==
  /\ ncmd < MaxCommands
  /\ ncmd' = ncmd + 1
  /\ out' = queryResponse(ensureUser(users, u)[u], query, nows)
  /\ users' = [ensureUser(users, u) EXCEPT ![u].messageHistory =
                 [p \in PlatformSet |->
                    [i \in 1..Len(@[p]) |->
                       [@[p][i] EXCEPT !.msgs = sortNewestFirst(p, @)]]]]
  /\ UNCHANGED <<handlers, cmds, clients, configs, log>>

\* handleUserQuery has no await: the search and the formatting are one segment
handleUserQuery(u, query, nows) ==
  /\ ncmd < MaxCommands
  /\ ncmd' = ncmd + 1
  /\ users' = ensureUser(users, u)
  /\ out' = queryResponse(users'[u], query, nows)
  /\ UNCHANGED <<handlers, cmds, clients, configs, log>>

(***************************************************************************)
(* The system: platform events, their handlers, and the user's commands.   *)
(***************************************************************************)
\* the channel of the events of the behaviours: one that the seeded store
\* holds for Telegram and for Discord, and not for Slack
EventChannels == {"c1"}

Deliveries ==
  \/ \E u \in Users, c \in EventChannels, pl \in Payloads : TelegramEvent(u, c, pl)
  \/ \E u \in Users, c \in EventChannels, pl \in Payloads, bot, tracked \in BOOLEAN :
       DiscordEvent(u, c, pl, bot, tracked)
  \/ \E u \in Users, c \in EventChannels, pl \in Payloads, bot, tracked \in BOOLEAN :
       SlackEvent(u, c, pl, bot, tracked)

Resumptions ==
  \/ \E n \in 1..Len(handlers) : TelegramGotChat(n)
  \/ \E n \in 1..Len(handlers) : TelegramGotSender(n)
  \/ \E n \in 1..Len(handlers) : SlackGotChannel(n)
  \/ \E n \in 1..Len(handlers) : SlackGotUser(n)
  \/ \E n \in 1..Len(handlers) : HandlerRejected(n)

Disconnects ==
  \/ \E u \in Users, t \in PlatformSet \cup {"all", "email"} : BeginDisconnect(u, t)
  \/ \E i \in 1..Len(cmds) : ClientDisconnected(i)
  \/ \E i \in 1..Len(cmds) : ClientDisconnectFailed(i)
  \/ \E i \in 1..Len(cmds) : DisconnectReturned(i)

Connects ==
  \/ \E u \in Users, p \in PlatformSet \cup {"email"}, args \in BOOLEAN :
       handleConnectCommand(u, p, args)
  \/ \E i \in 1..Len(cmds) : ConnectNotified(i)
  \/ \E i \in 1..Len(cmds) : SetupResolved(i)
  \/ \E i \in 1..Len(cmds) : SetupRejected(i)
  \/ \E i \in 1..Len(cmds) : SetupReturned(i)
  \/ \E i \in 1..Len(cmds) : ChannelsListed(i)
  \/ \E i \in 1..Len(cmds) : ConnectRejected(i)

Lists ==
  \/ \E u \in Users, p \in PlatformSet \cup {"email"} : handleListCommand(u, p)
  \/ \E i \in 1..Len(cmds) : ListResolved(i)
  \/ \E i \in 1..Len(cmds) : ListRejected(i)

Next ==
  \/ Deliveries
  \/ Resumptions
  \/ Disconnects
  \/ Connects
  \/ Lists
  \/ \E u \in Users, p \in PlatformSet \cup {"", "email"} : handleSetupCommand(u, p)
  \/ \E u \in Users : handleHelpCommand(u)
  \/ \E u \in Users : handleStatusCommand(u)
  \/ \E u \in Users : messageWithoutText(u)
  \/ \E u \in Users, q \in SystemQueries, nows \in Readings(SystemClocks) :
       handleUserQuery(u, q, nows)

\* the whole system, from a new process or from a store a few events old
Spec == Init /\ [][Next]_vars

\* the store and its writers, from a store whose busiest channel is about
\* to reach MAX_HISTORY_PER_CHANNEL
NextBacklog == Deliveries \/ Resumptions \/ Disconnects

InitBacklog == InitSeeded(Backlog) /\ Idle

SpecBacklog == InitBacklog /\ [][NextBacklog]_vars

\* the queries and /status over stores of several sizes
NextQuery ==
  \/ \E u \in Users : handleStatusCommand(u)
  \/ \E u \in Users, q \in Queries, nows \in Readings(Clocks) :
       handleUserQuery(u, q, nows)

InitQuery == (InitFresh \/ InitChatty \/ \E n \in SeedSizes : InitSeeded(n)) /\ Idle

SpecQuery == InitQuery /\ [][NextQuery]_vars


\* ---------------------------------------------------------------------
\* Two users of one bot process: the users table holds an entry for each
\* (lines 49, 282-293), and events and commands of both interleave
\* ---------------------------------------------------------------------
TwoUserQueries == {"show me", "bug dc tg"}

InitTwoUsers ==
  /\ users = ("u1" :> SeedUser("u1", 2)) @@ ("u2" :> SeedUser("u2", 12))
  /\ log = [k \in Keys |->
              IF MapHas(users[k[1]].messageHistory[k[2]], k[3])
              THEN MapGet(users[k[1]].messageHistory[k[2]], k[3]) ELSE <<>>]
  /\ Idle

NextTwoUsers ==
  \/ \E u \in Everyone, c \in ChannelIds, pl \in Payloads : TelegramEvent(u, c, pl)
  \/ \E u \in Everyone, c \in ChannelIds, pl \in Payloads :
       DiscordEvent(u, c, pl, FALSE, TRUE)
  \/ \E n \in 1..Len(handlers) : TelegramGotChat(n)
  \/ \E n \in 1..Len(handlers) : TelegramGotSender(n)
  \/ \E u \in Everyone, t \in {"discord", "all"} : BeginDisconnect(u, t)
  \/ \E i \in 1..Len(cmds) : ClientDisconnected(i)
  \/ \E i \in 1..Len(cmds) : DisconnectReturned(i)
  \/ \E u \in Everyone, q \in TwoUserQueries, nows \in Readings(SystemClocks) :
       handleUserQuery(u, q, nows)

SpecTwoUsers == InitTwoUsers /\ [][NextTwoUsers]_vars


\* ---------------------------------------------------------------------
\* storeMessage on its own, called as the connectors call it (lines 115,
\* 174, 238): with the userId their client was set up for by /connect, a
\* user whose entry messageHandler created before it dispatched the command
\* (lines 282-293); no entry of the table is ever deleted
\* ---------------------------------------------------------------------
MaxAppends == 3

storeMessageCall(userId, platform, c, pl) ==
  /\ ncmd < MaxAppends
  /\ LET message == messageFor(platform, c, pl, ncmd + 1)
         k == <<userId, platform, c>>
     IN  /\ users' = storeMessage(users, userId, platform, c, message)
         /\ out' = [kind |-> "stored", to |-> userId, platform |-> platform,
                    channelId |-> c, message |-> message]
         /\ log' = [log EXCEPT ![k] = Append(@, message)]
  /\ ncmd' = ncmd + 1
  /\ UNCHANGED <<handlers, cmds, clients, configs>>

\* the table after u1's first message to the bot (lines 282-293)
InitKnown ==
  /\ users = ensureUser(<<>>, "u1")
  /\ log = [k \in Keys |-> <<>>]

InitAppend == (InitKnown \/ InitSeeded(Recent)) /\ Idle

NextAppend ==
  \E userId \in DOMAIN users, platform \in PlatformSet, c \in ChannelIds,
     pl \in Payloads : storeMessageCall(userId, platform, c, pl)

SpecAppend == InitAppend /\ [][NextAppend]_vars


\* ---------------------------------------------------------------------
\* The search on its own: searchMessages over the platforms of a query
\* (lines 1086-1217), given keywords, channel hints, a time range and a
\* clock reading, over stores of several sizes
\* ---------------------------------------------------------------------
MaxSearches == 1

SearchPlatforms == {Platforms, <<"discord">>, <<"slack", "telegram">>}
SearchKeywords ==
  {<<>>, <<"bug">>, <<"deploy", "TEAM">>, <<"zzz">>, <<"οδοσ">>, <<"ΟΔΟΣ", "école">>,
   <<"\"οδοσ\"">>}
SearchHints ==
  {<<>>, <<"project">>, <<"c1">>, <<"C2", "GENERAL">>, <<"οδοσ">>, <<"École">>}

\* 10:00 of a day, and the instant 24 hours after the newest message of the
\* seeded Telegram chat
SearchClocks == {NowS * 1000, (NowS - 60) * 1000 + DAY_MS}

searchCall(u, platforms, keywords, channelHints, timeRange, nows) ==
  /\ ncmd < MaxSearches
  /\ u \in DOMAIN users
  /\ ncmd' = ncmd + 1
  /\ out' = [kind |-> "searched", to |-> u, platforms |-> platforms,
             keywords |-> keywords, channelHints |-> channelHints,
             timeRange |-> timeRange, nows |-> nows,
             results |-> searchAll(users[u], platforms, keywords, channelHints,
                                   timeRange, nows)]
  /\ UNCHANGED <<users, handlers, cmds, clients, configs, log>>

InitSearch ==
  (InitKnown \/ InitAccented \/ \E n \in {2, Recent} : InitSeeded(n)) /\ Idle

NextSearch ==
  \E u \in Users, platforms \in SearchPlatforms, keywords \in SearchKeywords,
     channelHints \in SearchHints, nows \in Readings(SearchClocks),
     timeRange \in {TimeRanges[i] : i \in 1..Len(TimeRanges)} :
    searchCall(u, platforms, keywords, channelHints, timeRange, nows)

SpecSearch == InitSearch /\ [][NextSearch]_vars


\* ---------------------------------------------------------------------
\* The cutoff on its own (lines 1106-1127), over time zones with and
\* without a change of offset and clock readings before, within a week
\* after and more than a week after the change
\* ---------------------------------------------------------------------
\* the instant of the change of offset: day 10, 01:00 UTC
ZoneChange == 10 * DAY_MS + HOUR_MS

TimeZones ==
  { UTC,
    [base |-> HOUR_MS, change |-> ZoneChange, after |-> 2 * HOUR_MS],
    [base |-> 2 * HOUR_MS, change |-> ZoneChange - HOUR_MS, after |-> HOUR_MS],
    [base |-> -5 * HOUR_MS, change |-> ZoneChange + 6 * HOUR_MS,
     after |-> -4 * HOUR_MS],
    [base |-> 9 * HOUR_MS, change |-> 0, after |-> 9 * HOUR_MS] }

CutoffClocks ==
  {d * DAY_MS + h * HOUR_MS + ms :
     d \in {9, 12, 18}, h \in {0, 1, 10, 23}, ms \in {0, 1}}

cutoffCall(zone, timeRange, now) ==
  /\ ncmd < MaxSearches
  /\ ncmd' = ncmd + 1
  /\ out' = [kind |-> "cutoff", zone |-> zone, timeRange |-> timeRange,
             now |-> now, cutoffTime |-> cutoffTimeIn(zone, timeRange, now)]
  /\ UNCHANGED <<users, handlers, cmds, clients, configs, log>>

InitCutoff == InitKnown /\ Idle

NextCutoff ==
  \E zone \in TimeZones, timeRange \in {TimeRanges[i] : i \in 1..Len(TimeRanges)},
     now \in CutoffClocks : cutoffCall(zone, timeRange, now)

SpecCutoff == InitCutoff /\ [][NextCutoff]_vars


\* ---------------------------------------------------------------------
\* One search under each of the four time ranges (lines 1086-1217), with
\* the same store, clock readings, platforms, keywords and hints, in
\* processes of several time zones
\* ---------------------------------------------------------------------
\* the offset changes at 01:00 UTC of the day of the behaviours: a local day
\* of 25 hours (+2 h to +1 h) or of 23 hours (+1 h to +2 h)
RangeZones ==
  { UTC,
    [base |-> 2 * HOUR_MS, change |-> 12 * DAY_MS + HOUR_MS, after |-> HOUR_MS],
    [base |-> HOUR_MS, change |-> 12 * DAY_MS + HOUR_MS, after |-> 2 * HOUR_MS] }

\* 10:00 and 22:30 UTC of that day
RangeClocks == {NowS * 1000, NowS * 1000 + 12 * HOUR_MS + 30 * 60 * 1000}

rangesCall(zone, u, platforms, keywords, channelHints, nows) ==
  /\ ncmd < MaxSearches
  /\ u \in DOMAIN users
  /\ ncmd' = ncmd + 1
  /\ out' = [kind |-> "ranges", to |-> u, zone |-> zone, platforms |-> platforms,
             keywords |-> keywords, channelHints |-> channelHints, nows |-> nows,
             results |-> [r \in {TimeRanges[i] : i \in 1..Len(TimeRanges)} |->
                            searchAllIn(zone, users[u], platforms, keywords,
                                        channelHints, r, nows)]]
  /\ UNCHANGED <<users, handlers, cmds, clients, configs, log>>

InitRanges == (\E n \in {Recent, FreshCount + 5} : InitSeeded(n)) /\ Idle

NextRanges ==
  \E zone \in RangeZones, u \in Users, platforms \in SearchPlatforms,
     keywords \in SearchKeywords, channelHints \in SearchHints,
     nows \in Readings(RangeClocks) :
    rangesCall(zone, u, platforms, keywords, channelHints, nows)

SpecRanges == InitRanges /\ [][NextRanges]_vars


\* ---------------------------------------------------------------------
\* The interpretation of a query on its own (lines 995-1083), for users
\* with every combination of connected platforms; the query of a user
\* without connection is answered before it is interpreted.  The words of
\* the query that starts with "deploydone" are separated by a vertical tab,
\* a no-break space and a tab; the last three queries hold letters beyond
\* A-Z, the last of them a quoted name.
\* ---------------------------------------------------------------------
InterpretQueries ==
  { "show me",
    "show me today and yesterday",
    "what happened yesterday",
    "the latest from today",
    "past week on the server",
    "last 7 days of slack",
    "translate anything new",
    "TODAY in Telegram",
    "This Day or the past day",
    "recent discord activity",
    "tg dc status this week",
    "anything in #general yesterday?",
    "Newest messages",
    "Find mentions of bug in #general and 'Project Team'",
    "what's new in 'c1' and \"Dev-Ops_2\" or #Dev-Ops_2?",
    "C# and ##c2 in '' or 'say \"hi\" now' #",
    "deploydone this	week",
    "ÉCOLE Bug ΟΔΟΣ today",
    "οδοσ",
    "\"οδοσ\"" }

interpretCall(u, query) ==
  /\ ncmd < MaxSearches
  /\ u \in DOMAIN users
  /\ ncmd' = ncmd + 1
  /\ out' = IF ~anyConnected(users[u])
            THEN [kind |-> "notConnected", to |-> u, query |-> query]
            ELSE [kind |-> "interpreted", to |-> u, query |-> query,
                  platforms |-> platformsToSearch(namedPlatforms(query),
                                                  users[u].platformClients),
                  timeRange |-> detectTimeRange(query),
                  queryWords |-> queryWords(query),
                  channelMentions |-> channelMentions(query)]
  /\ UNCHANGED <<users, handlers, cmds, clients, configs, log>>

InitInterpret ==
  /\ \E connected \in SUBSET PlatformSet :
       users = ("u1" :> ConnectedUser("u1", connected))
  /\ log = [k \in Keys |-> <<>>]
  /\ Idle

NextInterpret == \E u \in Users, query \in InterpretQueries : interpretCall(u, query)

SpecInterpret == InitInterpret /\ [][NextInterpret]_vars


(***************************************************************************)
(* The claims.                                                             *)
(***************************************************************************)
\* the stored sequence of channel k = <<user, platform, channelId>>, empty
\* when the user or the channel is not there
Stored(us, k) ==
  IF k[1] \in DOMAIN us /\ MapHas(us[k[1]].messageHistory[k[2]], k[3])
  THEN MapGet(us[k[1]].messageHistory[k[2]], k[3])
  ELSE <<>>

Tracked(us, k) ==
  k[1] \in DOMAIN us /\ MapHas(us[k[1]].messageHistory[k[2]], k[3])

\* C1: in every state a handler can observe, every channel history of every
\* user and platform holds at most 500 messages (the append and its eviction
\* are one step: no state shows a channel of 501).
C1_HistoryBounded ==
  \A u \in DOMAIN users : \A p \in PlatformSet :
    \A i \in 1..Len(users[u].messageHistory[p]) :
      Len(users[u].messageHistory[p][i].msgs) <= 500

\* a full channel that has been given more messages than it holds
C1_Witness ==
  \E k \in Keys : Len(Stored(users, k)) = 500 /\ Len(log[k]) > 500

\* C2: after N appends to a channel with no clear in between, the channel
\* holds exactly the last min(N, 500) of them, in arrival order.
C2_LastArrivals ==
  \A k \in Keys :
    LET N == Len(log[k])
    IN  /\ Stored(users, k) = SubSeq(log[k], N - Min(N, 500) + 1, N)
        /\ Tracked(users, k) <=> N > 0

\* 501 appends: the first message is gone, the other 500 are there in order
C2_Witness ==
  \E k \in Keys :
    /\ Len(log[k]) = 501
    /\ Stored(users, k) = Tail(log[k])
    /\ Stored(users, k)[500].seq > 0


\* the number of occurrences, in the whole store, of the message that
\* delivery n stored
RECURSIVE CountIn(_, _)
CountIn(msgs, n) ==
  IF msgs = <<>> THEN 0
  ELSE (IF Head(msgs).seq = n THEN 1 ELSE 0) + CountIn(Tail(msgs), n)

RECURSIVE CountInMap(_, _)
CountInMap(m, n) ==
  IF m = <<>> THEN 0 ELSE CountIn(Head(m).msgs, n) + CountInMap(Tail(m), n)

Occurrences(n) ==
  LET RECURSIVE Sum(_)
      Sum(S) == IF S = {} THEN 0
                ELSE LET x == CHOOSE x \in S : TRUE
                     IN  CountInMap(users[x[1]].messageHistory[x[2]], n)
                         + Sum(S \ {x})
  IN  Sum((DOMAIN users) \X PlatformSet)

\* C3: whatever the interleaving of a handler's append and a /disconnect
\* clear for the same user and platform, the message is on one side: in the
\* addressed channel exactly once, or absent because a clear (or the trim of
\* its own channel) removed it after the append; before the append it is
\* nowhere.
C3_AppendOrCleared ==
  \A n \in 1..Len(handlers) :
    LET h == handlers[n]
        k == <<h.user, h.platform, h.channelId>>
    IN  IF h.pc = "stored" /\ h.gone = "no"
        THEN Occurrences(n) = 1 /\ CountIn(Stored(users, k), n) = 1
        ELSE Occurrences(n) = 0

\* both sides in one state: after a completed clear of a platform, one
\* message of that platform was cleared, and another, whose handler was
\* still waiting during the clear, is in the history
C3_Witness ==
  /\ out.kind = "disconnect"
  /\ \E m, n \in 1..Len(handlers) :
       /\ handlers[m].user = out.to /\ handlers[n].user = out.to
       /\ handlers[m].platform = handlers[n].platform
       /\ handlers[m].platform \in ClearedPlatforms(out.target)
       /\ ~users[out.to].platformClients[ClientOf(handlers[m].platform)]
       /\ handlers[m].pc = "stored" /\ handlers[m].gone = "cleared"
       /\ handlers[n].pc = "stored" /\ handlers[n].gone = "no"

\* handler n makes its call of storeMessage in this step
Appends(n) ==
  /\ n \in 1..Len(handlers')
  /\ handlers'[n].pc = "stored"
  /\ n > Len(handlers) \/ handlers[n].pc # "stored"

\* C4: append has no failure and no no-op case: whenever a connector's
\* handler calls append, for whatever user the program holds, then after
\* the call the message is the last element of the addressed channel
\* history, which was created if it was absent and has otherwise grown by
\* one, up to the limit.
C4_AppendLands ==
  [][\A n \in 1..MaxEvents :
       Appends(n) =>
         LET h == handlers'[n]
             k == <<h.user, h.platform, h.channelId>>
         IN  /\ Tracked(users', k)
             /\ Stored(users', k)[Len(Stored(users', k))] = MessageOf(h, n)
             /\ Len(Stored(users', k))
                  = Min(Len(Stored(users, k)) + 1, MAX_HISTORY_PER_CHANNEL)]_vars

\* a handler's append created the channel it addressed
C4_Witness ==
  \E n \in 1..Len(handlers) :
    LET h == handlers[n]
        k == <<h.user, h.platform, h.channelId>>
    IN  /\ h.pc = "stored"
        /\ log[k] = <<MessageOf(h, n)>>
        /\ Stored(users, k) = <<MessageOf(h, n)>>

\* the call of storeMessage this step made, if it made one
Called == out'.kind = "stored" /\ ncmd' = ncmd + 1
CalledKey == <<out'.to, out'.platform, out'.channelId>>

\* the step in which the /disconnect command at place i of cmds replaces
\* the history maps and answers
ClearsAt(i) ==
  /\ i \in 1..Len(cmds)
  /\ cmds[i].kind = "disconnect"
  /\ cmds[i].pc = "awaitReturn"
  /\ Len(cmds[i].todo) = 1
  /\ cmds' = RemoveAt(cmds, i)
  /\ out'.kind = "disconnect"

\* ... a /disconnect of user u
Clears(u) == \E i \in 1..Len(cmds) : ClearsAt(i) /\ cmds[i].user = u

\* C5: the clear of /disconnect <platform> leaves that platform with no
\* tracked channel and the other two platforms' histories as they were; the
\* clear of /disconnect all leaves all three platforms with no tracked
\* channel.
C5_ClearFrame ==
  [][\A i \in 1..Len(cmds) :
       ClearsAt(i) =>
         LET u == cmds[i].user
         IN  \A p \in PlatformSet :
               IF cmds[i].target = "all" \/ cmds[i].target = p
               THEN users'[u].messageHistory[p] = NewMap
               ELSE users'[u].messageHistory[p] = users[u].messageHistory[p]]_vars

\* /disconnect <platform> has cleared a message of that platform, and the
\* two other platforms still hold their channels
C5_Witness ==
  /\ out.kind = "disconnect"
  /\ out.target \in PlatformSet
  /\ users[out.to].messageHistory[out.target] = NewMap
  /\ \A p \in PlatformSet \ {out.target} :
       users[out.to].messageHistory[p] # NewMap
  /\ \E n \in 1..Len(handlers) :
       /\ handlers[n].user = out.to
       /\ handlers[n].platform = out.target
       /\ handlers[n].gone = "cleared"

\* C8: an append changes only the channel it addresses, and a stored message
\* leaves only by the trim of its own channel or by a clear: in every step
\* each channel history either stays as it is, or takes the message of the
\* handler that appends to it (losing its head when it was full), or is
\* emptied by the clear of its user and platform.
C8_AppendFrame ==
  [][\A k \in Keys :
       LET old == Stored(users, k)
           new == Stored(users', k)
       IN  \/ new = old /\ (Tracked(users, k) => Tracked(users', k))
           \/ \E n \in 1..MaxEvents :
                /\ Appends(n)
                /\ k = <<handlers'[n].user, handlers'[n].platform,
                         handlers'[n].channelId>>
                /\ new = Append(IF Len(old) >= MAX_HISTORY_PER_CHANNEL
                                THEN Tail(old) ELSE old,
                                MessageOf(handlers'[n], n))
           \/ /\ \E i \in 1..Len(cmds) :
                   /\ ClearsAt(i)
                   /\ cmds[i].user = k[1]
                   /\ k[2] \in ClearedPlatforms(cmds[i].target)
              /\ ~Tracked(users', k)]_vars

\* an append to a full channel has evicted that channel's head, and the
\* user's other channels, on the same platform or another, hold what they
\* held
C8_Witness ==
  \E n \in 1..Len(handlers) :
    LET h == handlers[n]
        kh == <<h.user, h.platform, h.channelId>>
    IN  /\ h.pc = "stored" /\ h.gone = "no"
        /\ Len(log[kh]) = MAX_HISTORY_PER_CHANNEL + 1
        /\ Stored(users, kh) = Tail(log[kh])
        /\ \E k \in Keys \ {kh} : k[1] = h.user /\ Len(Stored(users, k)) >= 2
        /\ \A k \in Keys \ {kh} : Stored(users, k) = log[k]

\* the messages of the store that a query asks for, each as
\* <<platform, index of its channel, index in the channel>>
Matching(user, query, nows) ==
  LET parsed == Interpretation[query]
      searched == platformsToSearch(parsed.platforms, user.platformClients)
      cutoff(s) == cutoffTime(parsed.timeRange, nows[s])
  IN  UNION { UNION { { <<searched[s], i, j>> :
                          j \in { j \in 1..Len(user.messageHistory[searched[s]][i].msgs) :
                                    /\ \/ Len(parsed.channelMentions) = 0
                                       \/ channelHinted(searched[s],
                                                        user.messageHistory[searched[s]][i],
                                                        parsed.channelMentions)
                                    /\ messageMatches(searched[s],
                                                      user.messageHistory[searched[s]][i].msgs[j],
                                                      parsed.queryWords, cutoff(s)) } } :
                      i \in 1..Len(user.messageHistory[searched[s]]) } :
              s \in 1..Len(searched) }

MessageLines(lines) == SelectSeq(lines, LAMBDA l : l.t = "message")
NoteLines(lines) == SelectSeq(lines, LAMBDA l : l.t = "note")

\* the response is what one state of the user's store gives: its message
\* lines are messages of that state the query asks for, as many as the
\* budget lets through, and the note counts that state's matches
FromSnapshot(resp, user) ==
  LET matching == Matching(user, resp.query, resp.nows)
      total == Cardinality(matching)
  IN  /\ resp.kind = "noMatch" => total = 0
      /\ resp.kind = "results" =>
           LET shown == MessageLines(resp.lines)
               notes == NoteLines(resp.lines)
           IN  /\ total > 0
               /\ Len(shown) = Min(total, MAX_MESSAGES_TO_DISPLAY)
               /\ \A i \in 1..Len(shown) :
                    \E x \in matching :
                      shown[i] = messageLine(x[1], user.messageHistory[x[1]][x[2]].msgs[x[3]])
               /\ IF total > Len(shown)
                  THEN notes = <<[t |-> "note", shown |-> Len(shown), total |-> total]>>
                  ELSE notes = <<>>

\* the step of a command that answers at once: a command that awaits
\* something leaves the last response in place and joins cmds
Answered == ncmd' = ncmd + 1 /\ cmds' = cmds

\* the step of a query
Queried == Answered /\ out'.kind \in {"notConnected", "noMatch", "results"}

\* C6: a query's search and formatting observe one state of the store: the
\* rendered messages and the totals of the note are those of the store as
\* it is when the query is handled, and no append or clear takes effect in
\* between (the waiting handlers are where they were, the histories are what
\* they were).
C6_OneSnapshot ==
  [][Queried =>
       LET before == ensureUser(users, out'.to)
       IN  /\ FromSnapshot(out', before[out'.to])
           /\ users' = before
           /\ handlers' = handlers]_vars

\* a query answered with a note while a handler of the same user is waiting
\* to append and a /disconnect is waiting to clear
C6_Witness ==
  /\ out.kind = "results"
  /\ NoteLines(out.lines) # <<>>
  /\ \E i \in 1..Len(cmds) :
       cmds[i].kind = "disconnect" /\ cmds[i].user = out.to
  /\ \E n \in 1..Len(handlers) :
       handlers[n].user = out.to /\ handlers[n].pc \notin {"stored", "failed"}
  /\ FromSnapshot(out, users[out.to])

\* C7: handling a query (search, sort, truncation) and handling /status leave
\* every channel history unchanged in content and in order.
C7_ReadOnly ==
  [][(Queried \/ (Answered /\ out'.kind = "status")) =>
       /\ \A u \in DOMAIN users :
            users'[u].messageHistory = users[u].messageHistory
       /\ \A k \in Keys : Stored(users', k) = Stored(users, k)]_vars

\* a query has sorted and truncated its results, and the channels hold their
\* messages in the order of arrival, oldest first
C7_Witness ==
  /\ out.kind = "results"
  /\ NoteLines(out.lines) # <<>>
  /\ \A k \in Keys : Stored(users, k) = log[k]
  /\ \E k \in Keys :
       /\ k[1] = out.to
       /\ Len(Stored(users, k)) > MAX_MESSAGES_TO_DISPLAY
       /\ messageTimestamp(k[2], Stored(users, k)[1])
            < messageTimestamp(k[2], Stored(users, k)[Len(Stored(users, k))])

\* C9: the messages rendered over all platforms and channels of a query
\* result are at most 20, and as many as min(total matching messages, 20).
C9_GlobalCap ==
  out.kind = "results" =>
    LET shown == Len(MessageLines(out.lines))
        total == Cardinality(Matching(users[out.to], out.query, out.nows))
    IN  /\ shown <= MAX_MESSAGES_TO_DISPLAY
        /\ shown = Min(total, MAX_MESSAGES_TO_DISPLAY)

PlatformsRendered(lines) ==
  {lines[i].platform : i \in {i \in 1..Len(lines) : lines[i].t = "platform"}}

\* more than 20 matches, and the 20 rendered come from two platforms
C9_Witness ==
  /\ out.kind = "results"
  /\ Cardinality(Matching(users[out.to], out.query, out.nows)) > MAX_MESSAGES_TO_DISPLAY
  /\ Len(MessageLines(out.lines)) = MAX_MESSAGES_TO_DISPLAY
  /\ Cardinality(PlatformsRendered(out.lines)) = 2

\* the message lines among the first n lines
ShownBefore(lines, n) == Len(MessageLines(SubSeq(lines, 1, n)))

\* C10: no platform header and no channel header is emitted once the budget
\* of 20 is used up; every platform header is followed by a channel section
\* and every channel header by a message line.
C10_NoEmptySection ==
  out.kind = "results" =>
    \A i \in 1..Len(out.lines) :
      /\ out.lines[i].t \in {"platform", "channel"} =>
           ShownBefore(out.lines, i - 1) < MAX_MESSAGES_TO_DISPLAY
      /\ out.lines[i].t = "platform" =>
           i < Len(out.lines) /\ out.lines[i + 1].t = "channel"
      /\ out.lines[i].t = "channel" =>
           i < Len(out.lines) /\ out.lines[i + 1].t = "message"

\* the budget was used up inside a platform: a channel of that platform and
\* a whole platform with matches have no header
C10_Witness ==
  /\ out.kind = "results"
  /\ Len(MessageLines(out.lines)) = MAX_MESSAGES_TO_DISPLAY
  /\ LET matching == Matching(users[out.to], out.query, out.nows)
         channels == {i \in 1..Len(out.lines) : out.lines[i].t = "channel"}
     IN  /\ \E x \in matching : x[1] \notin PlatformsRendered(out.lines)
         /\ Cardinality({<<x[1], x[2]>> :
                           x \in {y \in matching : y[1] \in PlatformsRendered(out.lines)}})
              > Cardinality(channels)

\* C11: the note 'Showing X of Y' ends the response if and only if the
\* matching messages of all platforms and channels are more than the
\* messages rendered; X is the number rendered and Y the number matching.
C11_NoteIffTruncated ==
  out.kind = "results" =>
    LET shown == Len(MessageLines(out.lines))
        total == Cardinality(Matching(users[out.to], out.query, out.nows))
        last == out.lines[Len(out.lines)]
    IN  /\ Len(NoteLines(out.lines)) = IF total > shown THEN 1 ELSE 0
        /\ total > shown => last = [t |-> "note", shown |-> shown, total |-> total]

\* a response with the note, and the store has exactly one match more than
\* the budget
C11_Witness ==
  /\ out.kind = "results"
  /\ Cardinality(Matching(users[out.to], out.query, out.nows))
       = MAX_MESSAGES_TO_DISPLAY + 1
  /\ out.lines[Len(out.lines)] =
       [t |-> "note", shown |-> MAX_MESSAGES_TO_DISPLAY,
        total |-> MAX_MESSAGES_TO_DISPLAY + 1]

\* the channels with a match, as <<platform, index of the channel>>, in the
\* order of the search: platform by platform, each platform's channels in
\* the order of its Map
MatchingChannels(user, query, nows) ==
  LET searched == platformsToSearch(Interpretation[query].platforms,
                                    user.platformClients)
      C == {c \in {<<s, x[2]>> : s \in 1..Len(searched),
                                 x \in Matching(user, query, nows)} :
              \E x \in Matching(user, query, nows) :
                x[1] = searched[c[1]] /\ x[2] = c[2]}
      Less(c, d) == c[1] < d[1] \/ (c[1] = d[1] /\ c[2] < d[2])
  IN  [r \in 1..Cardinality(C) |->
         LET at == CHOOSE c \in C : Cardinality({d \in C : Less(d, c)}) = r - 1
         IN  <<searched[at[1]], at[2]>>]

\* the positions of the channel headers of a response, and the message
\* lines that follow the header at position h
ChannelHeaders(lines) ==
  SelectSeq([i \in 1..Len(lines) |-> i], LAMBDA i : lines[i].t = "channel")

SectionOf(lines, h) ==
  LET e == CHOOSE e \in h..Len(lines) :
             /\ \A i \in (h + 1)..e : lines[i].t = "message"
             /\ e = Len(lines) \/ lines[e + 1].t # "message"
  IN  SubSeq(lines, h + 1, e)

\* the matching messages of channel c in the order the claim describes:
\* a message comes before the older ones, and before the later arrivals of
\* its own timestamp
NewestFirst(user, query, nows, c) ==
  LET msgs == user.messageHistory[c[1]][c[2]].msgs
      J == {x[3] : x \in {y \in Matching(user, query, nows) :
                            y[1] = c[1] /\ y[2] = c[2]}}
      Before(a, b) ==
        \/ messageTimestamp(c[1], msgs[a]) > messageTimestamp(c[1], msgs[b])
        \/ /\ messageTimestamp(c[1], msgs[a]) = messageTimestamp(c[1], msgs[b])
           /\ a < b
  IN  [r \in 1..Cardinality(J) |->
         msgs[CHOOSE j \in J : Cardinality({i \in J : Before(i, j)}) = r - 1]]

\* C12: in each rendered channel the messages are newest first, messages of
\* equal timestamp in their order of arrival, and a channel the budget
\* truncates keeps its newest messages.
C12_NewestFirstStable ==
  out.kind = "results" =>
    LET user == users[out.to]
        channels == MatchingChannels(user, out.query, out.nows)
        headers == ChannelHeaders(out.lines)
    IN  /\ Len(headers) <= Len(channels)
        /\ \A r \in 1..Len(headers) :
             LET section == SectionOf(out.lines, headers[r])
                 ordered == NewestFirst(user, out.query, out.nows, channels[r])
             IN  /\ Len(section) <= Len(ordered)
                 /\ section = [i \in 1..Len(section) |->
                                 messageLine(channels[r][1], ordered[i])]

\* a response in which one channel is cut by the budget and another shows
\* two messages of one timestamp, the earlier arrival first
C12_Witness ==
  /\ out.kind = "results"
  /\ LET user == users[out.to]
         channels == MatchingChannels(user, out.query, out.nows)
         headers == ChannelHeaders(out.lines)
     IN  /\ \E r \in 1..Len(headers) :
              /\ Len(SectionOf(out.lines, headers[r])) >= 2
              /\ Len(SectionOf(out.lines, headers[r]))
                   < Len(NewestFirst(user, out.query, out.nows, channels[r]))
         /\ \E r \in 1..Len(headers) :
              LET section == SectionOf(out.lines, headers[r])
              IN  \E i \in 1..(Len(section) - 1) :
                    /\ section[i].timestamp = section[i + 1].timestamp
                    /\ section[i] # section[i + 1]

\* text contains keyword, letter case aside: place by place, the small
\* letters of the two are the same
ContainsCI(text, keyword) ==
  LET small == toLowerCase(text)
      wanted == toLowerCase(keyword)
  IN  \E i \in 1..(Len(small) - Len(wanted) + 1) :
        \A j \in 1..Len(wanted) :
          SubSeq(small, i + j - 1, i + j - 1) = SubSeq(wanted, j, j)

\* Two letters that differ in nothing but their case: folding, which takes
\* a capital to its small letter and the final sigma, a second small form
\* of the capital sigma, to the sigma, gives the same letter.
Fold(ch) == IF ch = "ς" THEN "σ" ELSE LowerChar(ch)

\* text contains keyword as a case-insensitive substring: at some place of
\* text the letters of keyword stand, their case aside
ContainsIgnoringCase(text, keyword) ==
  \E i \in 1..(Len(text) - Len(keyword) + 1) :
    \A j \in 1..Len(keyword) :
      Fold(SubSeq(text, i + j - 1, i + j - 1)) = Fold(SubSeq(keyword, j, j))

\* the filter as the program applies it: not older than the cutoff, and,
\* when there are keywords, holding one of them after toLowerCase of both
Passes(platform, message, keywords, cutoff) ==
  /\ messageTimestamp(platform, message) >= cutoff
  /\ \/ keywords = <<>>
     \/ \E i \in 1..Len(keywords) :
          ContainsCI(messageText(platform, message), keywords[i])

\* the cutoff of the search of the p-th platform, by the time range and the
\* reading of the clock of that search
CutoffOf(search, p) ==
  LET now == search.nows[p]
  IN  CASE search.timeRange = "today"     -> now - (now % DAY_MS)
        [] search.timeRange = "yesterday" -> now - (now % DAY_MS) - DAY_MS
        [] search.timeRange = "thisWeek"  -> now - 7 * DAY_MS
        [] search.timeRange = "recent"    -> now - DAY_MS

\* the messages the search found in a channel: those of the channel's
\* entry in the platform's result, none when it has no entry
Found(search, platform, channelId) ==
  LET hits == {<<s, r>> \in (1..Len(search.results)) \X (1..Cardinality(ChannelIds)) :
                 /\ search.results[s].platform = platform
                 /\ r <= Len(search.results[s].results)
                 /\ search.results[s].results[r].channelInfo.id = channelId}
  IN  IF hits = {} THEN <<>>
      ELSE LET h == CHOOSE h \in hits : TRUE
           IN  search.results[h[1]].results[h[2]].messages

InResult(search, platform, channelId) ==
  \E s \in 1..Len(search.results) :
    /\ search.results[s].platform = platform
    /\ \E r \in 1..Len(search.results[s].results) :
         search.results[s].results[r].channelInfo.id = channelId

\* the filter of the claim: not older than the cutoff, and, when there are
\* keywords, holding one of them as a case-insensitive substring
PassesIgnoringCase(platform, message, keywords, cutoff) ==
  /\ messageTimestamp(platform, message) >= cutoff
  /\ \/ keywords = <<>>
     \/ \E i \in 1..Len(keywords) :
          ContainsIgnoringCase(messageText(platform, message), keywords[i])

\* C13 as stated: a stored message is in its channel's search result if and
\* only if its timestamp is at or after the cutoff and the keyword list is
\* empty or its text contains a keyword as a case-insensitive substring.
\* (Of a channel that is searched: every channel with a result, and every
\* channel of a searched platform when the search has no channel hint.)
\* It does not hold: the program compares toLowerCase of the text with
\* toLowerCase of the keyword (line 1189), and toLowerCase gives a capital
\* sigma one of two small letters, by its place in the word.
C13_MessageFilter ==
  out.kind = "searched" =>
    \A p \in 1..Len(out.platforms) :
      LET platform == out.platforms[p]
          history == users[out.to].messageHistory[platform]
      IN  \A c \in 1..Len(history) :
            (out.channelHints = <<>> \/ InResult(out, platform, history[c].id)) =>
              Found(out, platform, history[c].id) =
                SelectSeq(history[c].msgs,
                          LAMBDA m : PassesIgnoringCase(platform, m, out.keywords,
                                                        CutoffOf(out, p)))

\* the channel name a stored message carries
NameField(platform, message) ==
  IF platform = "telegram" THEN message.chatTitle ELSE message.channelName

\* the hint test as the program applies it, on a channel entry of the
\* store: toLowerCase of the name holds toLowerCase of a hint, or the id is
\* a hint
Hinted(platform, entry, channelHints) ==
  \E i \in 1..Len(channelHints) :
    \/ ContainsCI(NameField(platform, entry.msgs[1]), channelHints[i])
    \/ entry.id = channelHints[i]

HasMatch(search, p, entry) ==
  \E i \in 1..Len(entry.msgs) :
    Passes(search.platforms[p], entry.msgs[i], search.keywords, CutoffOf(search, p))

\* the hint test of the claim: the channel name of the first stored
\* message holds a hint as a case-insensitive substring, or the id is a hint
HintedIgnoringCase(platform, entry, channelHints) ==
  \E i \in 1..Len(channelHints) :
    \/ ContainsIgnoringCase(NameField(platform, entry.msgs[1]), channelHints[i])
    \/ entry.id = channelHints[i]

\* C14 as stated: with at least one channel hint a channel is searched if
\* and only if the channel name of its first stored message contains a hint
\* as a case-insensitive substring or its channelId equals a hint exactly;
\* with no hint every tracked channel of the platform is searched.  A
\* searched channel is one whose messages, as far as the filter of the
\* program lets them pass, reach the result.  It does not hold: the program
\* compares toLowerCase of the name with toLowerCase of the hint (line
\* 1146), and a capital sigma at the end of a word of the name becomes a
\* small letter that a sigma of the hint is not equal to.
C14_ChannelHints ==
  out.kind = "searched" =>
    \A p \in 1..Len(out.platforms) :
      LET platform == out.platforms[p]
          history == users[out.to].messageHistory[platform]
      IN  \A c \in 1..Len(history) :
            InResult(out, platform, history[c].id) <=>
              /\ HasMatch(out, p, history[c])
              /\ \/ out.channelHints = <<>>
                 \/ HintedIgnoringCase(platform, history[c], out.channelHints)

\* the channels of a platform that a search goes through and that hold a
\* matching message
MatchedChannels(search, platform) ==
  LET history == users[search.to].messageHistory[platform]
      p == CHOOSE p \in 1..Len(search.platforms) : search.platforms[p] = platform
  IN  {history[c].id : c \in {c \in 1..Len(history) :
         /\ HasMatch(search, p, history[c])
         /\ \/ search.channelHints = <<>>
            \/ Hinted(platform, history[c], search.channelHints)}}

PlatformsIn(search) ==
  {search.results[s].platform : s \in 1..Len(search.results)}

\* C15: a channel has an entry in its platform's result if and only if it
\* has a matching message, a platform has an entry in the aggregated result
\* if and only if one of its channels has, and the aggregated result is
\* empty exactly when no searched channel has a matching message.
C15_OnlyNonEmpty ==
  out.kind = "searched" =>
    /\ \A s \in 1..Len(out.results) :
         /\ Len(out.results[s].results) > 0
         /\ \A r \in 1..Len(out.results[s].results) :
              /\ Len(out.results[s].results[r].messages) > 0
              /\ out.results[s].results[r].channelInfo.id
                   \in MatchedChannels(out, out.results[s].platform)
         /\ Len(out.results[s].results)
              = Cardinality(MatchedChannels(out, out.results[s].platform))
    /\ \A p \in 1..Len(out.platforms) :
         out.platforms[p] \in PlatformsIn(out)
           <=> MatchedChannels(out, out.platforms[p]) # {}
    /\ Len(out.results) = Cardinality(PlatformsIn(out))
    /\ out.results = <<>>
         <=> \A p \in 1..Len(out.platforms) :
               MatchedChannels(out, out.platforms[p]) = {}

\* of three platforms searched, all holding messages, one has no entry in the
\* result, and a platform with an entry has a channel without one
C15_Witness ==
  /\ out.kind = "searched"
  /\ Len(out.platforms) = 3
  /\ \A p \in 1..3 : users[out.to].messageHistory[out.platforms[p]] # NewMap
  /\ Cardinality(PlatformsIn(out)) = 2
  /\ \E s \in 1..Len(out.results) :
       Len(out.results[s].results)
         < Len(users[out.to].messageHistory[out.results[s].platform])

\* keyword, which is in lower case, is a substring of the lowercased query
InLowered(query, keyword) ==
  LET lowered == toLowerCase(query)
  IN  \E i \in 1..(Len(lowered) - Len(keyword) + 1) :
        \A j \in 1..Len(keyword) :
          SubSeq(lowered, i + j - 1, i + j - 1) = SubSeq(keyword, j, j)

RangeNamed(query, range) ==
  \E i \in 1..Len(timeKeywords[range]) : InLowered(query, timeKeywords[range][i])

\* C16: the time range is the first of recent, today, yesterday, thisWeek
\* one of whose keywords is a substring of the lowercased query, and recent
\* when there is none; a query with 'today' and 'yesterday' and no keyword
\* of recent yields today.
C16_FirstRangeWins ==
  out.kind = "interpreted" =>
    /\ out.timeRange =
         IF RangeNamed(out.query, "recent") THEN "recent"
         ELSE IF RangeNamed(out.query, "today") THEN "today"
         ELSE IF RangeNamed(out.query, "yesterday") THEN "yesterday"
         ELSE IF RangeNamed(out.query, "thisWeek") THEN "thisWeek"
         ELSE "recent"
    /\ (/\ InLowered(out.query, "today") /\ InLowered(out.query, "yesterday")
        /\ ~RangeNamed(out.query, "recent")) => out.timeRange = "today"

\* the query of the spec's example, interpreted as today
C16_Witness ==
  /\ out.kind = "interpreted"
  /\ out.query = "show me today and yesterday"
  /\ RangeNamed(out.query, "yesterday")
  /\ out.timeRange = "today"

PlatformNamed(query, platform) ==
  \E i \in 1..Len(platformKeywords[platform]) :
    InLowered(query, platformKeywords[platform][i])

\* the platforms handleUserQuery searches for the query it answered: none
\* when it answered before the search
PlatformsSearched ==
  IF out.kind = "interpreted" THEN out.platforms ELSE <<>>

\* C17 as stated: for every query, the platforms searched are exactly those
\* with a trigger keyword as a substring of the lowercased query, word
\* boundaries aside; when there is none they are exactly the platforms the
\* requester is connected to.  It does not hold: for a requester with no
\* platform connected nothing is searched, whatever the query names (lines
\* 995-1009).
C17_PlatformsSearched ==
  out.kind \in {"interpreted", "notConnected"} =>
    LET named == {p \in PlatformSet : PlatformNamed(out.query, p)}
        searched == {PlatformsSearched[i] : i \in 1..Len(PlatformsSearched)}
    IN  /\ Len(PlatformsSearched) = Cardinality(searched)
        /\ searched = IF named # {} THEN named
                      ELSE {p \in PlatformSet : users[out.to].platformClients[p]}

\* the texts of the messages a user's store holds
StoreTexts(user) ==
  {messageText(p, user.messageHistory[p][e].msgs[i]) :
     <<p, e, i>> \in {t \in PlatformSet \X (1..Cardinality(ChannelIds))
                                        \X (1..MAX_HISTORY_PER_CHANNEL) :
                        /\ t[2] <= Len(user.messageHistory[t[1]])
                        /\ t[3] <= Len(user.messageHistory[t[1]][t[2]].msgs)}}

\* the query of the spec's example was answered from the store
DiscordActivityAnswered ==
  /\ out.kind \in {"noMatch", "results"}
  /\ out.query = "recent discord activity"

\* C18 as stated: 'recent discord activity' over a store none of whose
\* texts holds 'discord' finds nothing.  It does not hold: 'recent' and
\* 'activity' are keywords too, and one keyword in the text is enough.
C18_DiscordAlone ==
  (/\ DiscordActivityAnswered
   /\ \A text \in StoreTexts(users[out.to]) : ~ContainsCI(text, "discord"))
    => out.kind = "noMatch"

\* C18, amended: 'recent discord activity' names the platform discord, and
\* over a store none of whose texts holds 'recent', 'discord' or 'activity'
\* (in any case) it finds nothing.
C18_NoKeywordNoMatch ==
  DiscordActivityAnswered =>
    /\ namedPlatforms(out.query) = <<"discord">>
    /\ (\A text \in StoreTexts(users[out.to]) :
          /\ ~ContainsCI(text, "recent")
          /\ ~ContainsCI(text, "discord")
          /\ ~ContainsCI(text, "activity"))
         => out.kind = "noMatch"

\* nothing found although Discord holds a message of the last day
C18_Witness ==
  /\ DiscordActivityAnswered
  /\ out.kind = "noMatch"
  /\ \A text \in StoreTexts(users[out.to]) :
       ~ContainsCI(text, "recent") /\ ~ContainsCI(text, "discord")
         /\ ~ContainsCI(text, "activity")
  /\ \E e \in 1..Len(users[out.to].messageHistory.discord) :
       \E i \in 1..Len(users[out.to].messageHistory.discord[e].msgs) :
         users[out.to].messageHistory.discord[e].msgs[i].timestamp
           >= out.nows[1] - DAY_MS

\* a query was answered to a requester who has no platform connected and
\* whose store holds no message
AnsweredUnconnected ==
  /\ out.kind \in {"notConnected", "noMatch", "results"}
  /\ \A p \in PlatformSet :
       /\ ~users[out.to].platformClients[p]
       /\ users[out.to].messageHistory[p] = <<>>

\* C19 as stated: a query of a requester with no connected platform and an
\* empty store is answered by the "couldn't find any messages" text.  It
\* does not hold: the answer is the "not connected" text, given before the
\* search (lines 995-1009).
C19_NoMatchText ==
  AnsweredUnconnected =>
    TextOf(out) = "I couldn't find any messages matching your query \""
                    \o out.query \o "\"."

\* the number of entries of a channel history that carry the id
EntriesWithId(msgs, id) == Cardinality({i \in 1..Len(msgs) : msgs[i].id = id})

\* C20: the append of a message whose id a stored message of the channel
\* already carries adds a second entry; no append is suppressed or merged
\* because of its id (the entry the limit evicts aside).
C20_NoDedupById ==
  [][(/\ Called
      /\ out'.to \in DOMAIN users
      /\ EntriesWithId(Stored(users, CalledKey), out'.message.id) > 0) =>
       LET before == Stored(users, CalledKey)
           after == Stored(users', CalledKey)
           id == out'.message.id
           evicted == IF /\ Len(before) >= MAX_HISTORY_PER_CHANNEL
                         /\ Head(before).id = id THEN 1 ELSE 0
       IN  /\ after[Len(after)] = out'.message
           /\ EntriesWithId(after, id) = EntriesWithId(before, id) + 1 - evicted]_vars

\* a channel that holds two deliveries of one message id, the second of
\* them the message just stored
C20_Witness ==
  /\ out.kind = "stored"
  /\ out.to \in DOMAIN users
  /\ LET msgs == Stored(users, <<out.to, out.platform, out.channelId>>)
     IN  /\ Len(msgs) >= 2
         /\ msgs[Len(msgs)] = out.message
         /\ msgs[Len(msgs) - 1].id = out.message.id
         /\ msgs[Len(msgs) - 1] # out.message

\* the number of messages of a platform in a user's store: the stored
\* positions of its channels
StoredCount(us, u, p) ==
  Cardinality({t \in ChannelIds \X (1..MAX_HISTORY_PER_CHANNEL) :
                 t[2] <= Len(Stored(us, <<u, p, t[1]>>))})

\* C21: the count /status reports for a platform is the sum of the lengths
\* of the platform's channel histories in the state the command finds, and
\* the total it reports is the sum of the three counts.
C21_StatusCounts ==
  [][(Answered /\ out'.kind = "status") =>
       /\ \A p \in PlatformSet : out'[p] = StoredCount(users, out'.to, p)
       /\ out'.totalMessages = out'.telegram + out'.discord + out'.slack]_vars

\* /status of a store with two Discord channels, after an event was stored
C21_Witness ==
  /\ out.kind = "status"
  /\ Len(users[out.to].messageHistory.discord) = 2
  /\ out.discord = StoredCount(users, out.to, "discord")
  /\ out.slack > 0
  /\ out.totalMessages > Recent + 8

\* the channels a platform's Map holds, in the order of the Map
ChannelOrder(us, u, p) ==
  IF u \in DOMAIN us
  THEN [e \in 1..Len(us[u].messageHistory[p]) |-> us[u].messageHistory[p][e].id]
  ELSE <<>>

\* the platform whose section line i of a response is in
PlatformAt(lines, i) ==
  lines[CHOOSE j \in 1..i :
          /\ lines[j].t = "platform"
          /\ \A k \in (j + 1)..i : lines[k].t # "platform"].platform

\* the place of a platform in telegram, discord, slack
PlaceOf(platform) ==
  CASE platform = "telegram" -> 1 [] platform = "discord" -> 2
    [] platform = "slack" -> 3

\* the places in the Map of platform p of the channels that carry the name
EntriesNamed(user, p, name) ==
  {e \in 1..Len(user.messageHistory[p]) :
     /\ Len(user.messageHistory[p][e].msgs) > 0
     /\ channelNameOf(p, user.messageHistory[p][e].msgs) = name}

\* the sections of a response are in the order of the claim
SectionsInOrder(lines, user) ==
  /\ \A i, j \in 1..Len(lines) :
       (i < j /\ lines[i].t = "platform" /\ lines[j].t = "platform") =>
         PlaceOf(lines[i].platform) < PlaceOf(lines[j].platform)
  /\ \A i, j \in 1..Len(lines) :
       (/\ i < j /\ lines[i].t = "channel" /\ lines[j].t = "channel"
        /\ PlatformAt(lines, i) = PlatformAt(lines, j)) =>
         \E a \in EntriesNamed(user, PlatformAt(lines, i), lines[i].name) :
           \E b \in EntriesNamed(user, PlatformAt(lines, j), lines[j].name) :
             a < b

\* C22: platform sections come in the order telegram, discord, slack
\* whatever the query names first; the channel sections of a platform come
\* in the order of the platform's Map, which is the order in which the
\* channels were first stored since the platform was last cleared: a step
\* leaves it alone, or puts a channel that had no message at its end, or
\* (the clear of /disconnect) empties it.
C22_SectionOrder ==
  [][/\ (Queried /\ out'.kind = "results") =>
          SectionsInOrder(out'.lines, users'[out'.to])
     /\ \A u \in DOMAIN users', p \in PlatformSet :
          LET before == ChannelOrder(users, u, p)
              after == ChannelOrder(users', u, p)
              first == {c \in ChannelIds :
                          log[<<u, p, c>>] = <<>> /\ log'[<<u, p, c>>] # <<>>}
          IN  \/ first = {} /\ after = before
              \/ \E c \in first : first = {c} /\ after = Append(before, c)
              \/ Clears(u) /\ after = <<>>]_vars

\* a query that names discord before telegram, answered with the Telegram
\* section first and the two Discord channels in the order of the Map, c2
\* before c1
C22_Witness ==
  /\ out.kind = "results"
  /\ out.query = "bug dc tg"
  /\ [i \in 1..Len(SelectSeq(out.lines, LAMBDA l : l.t = "platform")) |->
        SelectSeq(out.lines, LAMBDA l : l.t = "platform")[i].platform]
       = <<"telegram", "discord">>
  /\ ChannelOrder(users, out.to, "discord") = <<"c2", "c1">>
  /\ \E i, j \in 1..Len(out.lines) :
       /\ i < j
       /\ out.lines[i] = [t |-> "channel", name |-> ChannelTitle("c2")]
       /\ out.lines[j] = [t |-> "channel", name |-> ChannelTitle("c1")]
       /\ PlatformAt(out.lines, i) = "discord"
       /\ PlatformAt(out.lines, j) = "discord"

\* the step stores a message for user u, or is the clear of u's /disconnect
OwnWrite(u) ==
  \/ Clears(u)
  \/ \E p \in PlatformSet, c \in ChannelIds :
       Len(log'[<<u, p, c>>]) = Len(log[<<u, p, c>>]) + 1

\* the step answers a query u has asked before, with the same clock reading,
\* and since then nothing was stored for u and u gave no other command
AskedAgain(u) ==
  /\ Queried
  /\ out'.to = u
  /\ out.kind \in {"notConnected", "noMatch", "results"}
  /\ out.to = u
  /\ out.query = out'.query
  /\ out.nows = out'.nows
  /\ \A i \in 1..Len(cmds) : cmds[i].user # u
  /\ \A n \in 1..Len(handlers) : handlers[n].user # u

\* C23: a step changes the history of a user only when it is an append or
\* a clear for that user, and a query asked again, after events and commands
\* of other users only, gets the response it got before.
C23_UserIsolation ==
  [][\A u \in DOMAIN users :
       /\ users'[u].messageHistory # users[u].messageHistory => OwnWrite(u)
       /\ AskedAgain(u) => out' = out]_vars

\* u1 is answered a second time after an event of u2 was stored
C23_Witness ==
  /\ out.kind = "results"
  /\ out.to = "u1"
  /\ ncmd = 2
  /\ cmds = <<>>
  /\ Len(handlers) > 0
  /\ \A n \in 1..Len(handlers) :
       handlers[n].user = "u2" /\ handlers[n].pc = "stored"
  /\ users["u1"].messageHistory = SeedHistory(2)
  /\ users["u2"].messageHistory # SeedHistory(12)

\* C24 as stated: the cutoff of recent is now - 24 h and the cutoff of
\* thisWeek is now - 7 * 24 h, for every now.  It does not hold of thisWeek
\* in a process whose time zone changed its offset in the seven days before
\* now: setDate(getDate() - 7) goes back seven local days.
C24_SlidingWindows ==
  out.kind = "cutoff" =>
    /\ out.timeRange = "recent" =>
         out.cutoffTime = out.now - 24 * 60 * 60 * 1000
    /\ out.timeRange = "thisWeek" =>
         out.cutoffTime = out.now - 7 * 24 * 60 * 60 * 1000

\* a character of a-z, A-Z, 0-9, '_' and '-'
NameChar(ch) ==
  ch \in {"a", "b", "c", "d", "e", "f", "g", "h", "i", "j", "k", "l", "m",
          "n", "o", "p", "q", "r", "s", "t", "u", "v", "w", "x", "y", "z",
          "A", "B", "C", "D", "E", "F", "G", "H", "I", "J", "K", "L", "M",
          "N", "O", "P", "Q", "R", "S", "T", "U", "V", "W", "X", "Y", "Z",
          "0", "1", "2", "3", "4", "5", "6", "7", "8", "9", "_", "-"}

\* the tokens that follow a '#': the longest run of name characters
HashTokens(query) ==
  {SubSeq(query, i + 1, e) :
     <<i, e>> \in {t \in (1..Len(query)) \X (1..Len(query)) :
                     /\ SubSeq(query, t[1], t[1]) = "#"
                     /\ t[2] > t[1]
                     /\ \A k \in (t[1] + 1)..t[2] : NameChar(SubSeq(query, k, k))
                     /\ t[2] = Len(query)
                          \/ ~NameChar(SubSeq(query, t[2] + 1, t[2] + 1))}}

\* <<i, j>>: a quote at i, the next quote of its kind at j, text in between
QuotePairs(query) ==
  {t \in (1..Len(query)) \X (1..Len(query)) :
     /\ SubSeq(query, t[1], t[1]) \in {"'", "\""}
     /\ t[2] > t[1] + 1
     /\ SubSeq(query, t[2], t[2]) = SubSeq(query, t[1], t[1])
     /\ \A k \in (t[1] + 1)..(t[2] - 1) :
          SubSeq(query, k, k) # SubSeq(query, t[1], t[1])}

\* the quoted substrings of a query, read from the left: a pair that starts
\* inside an earlier quoted substring is not one
QuotedPairs(query) ==
  CHOOSE Q \in SUBSET QuotePairs(query) :
    Q = {t \in QuotePairs(query) : \A q \in Q : q[1] < t[1] => q[2] < t[1]}

QuotedTexts(query) ==
  {SubSeq(query, t[1] + 1, t[2] - 1) : t \in QuotedPairs(query)}

\* C25: the channel hints of a query are exactly the tokens that follow its
\* '#' characters and the inner texts of its quoted substrings, case
\* preserved; the query of the spec's example has the hints general and
\* Project Team.
C25_ChannelHints ==
  out.kind = "interpreted" =>
    LET hints == {out.channelMentions[i] : i \in 1..Len(out.channelMentions)}
    IN  /\ hints = HashTokens(out.query) \cup QuotedTexts(out.query)
        /\ out.query = "Find mentions of bug in #general and 'Project Team'"
             => hints = {"general", "Project Team"}

\* the query of the spec's example, with its two hints
C25_Witness ==
  /\ out.kind = "interpreted"
  /\ out.query = "Find mentions of bug in #general and 'Project Team'"
  /\ out.channelMentions = <<"general", "Project Team">>

\* C26: once /disconnect has returned, the history of a platform that is
\* not connected stays empty until the platform is connected again.  It
\* does not hold: an event handler that was awaiting chat, channel or user
\* info when the client was disconnected stores its message afterwards.
C26_ClearedStaysEmpty ==
  [][\A u \in DOMAIN users, p \in PlatformSet :
       (/\ \A i \in 1..Len(cmds) : cmds[i].user # u
        /\ ~users[u].platformClients[p]
        /\ users[u].messageHistory[p] = <<>>
        /\ ~users'[u].platformClients[p])
         => users'[u].messageHistory[p] = <<>>]_vars

\* C27: a query whose only time phrase is 'last 7 days' has the time range
\* thisWeek.  It does not hold: 'last', a keyword of recent, is a substring
\* of the phrase, and recent is tested first.
C27_LastSevenDays ==
  (/\ out.kind = "interpreted"
   /\ InLowered(out.query, "last 7 days")
   /\ ~InLowered(out.query, "recent")
   /\ ~InLowered(out.query, "latest")
   /\ ~InLowered(out.query, "newest")
   /\ ~RangeNamed(out.query, "today")
   /\ ~RangeNamed(out.query, "yesterday"))
    => out.timeRange = "thisWeek"

\* C28: in every state every tracked channel holds between 1 and 500
\* messages, so the search never meets a channel without a message.
C28_TrackedNonEmpty ==
  \A u \in DOMAIN users, p \in PlatformSet :
    \A e \in 1..Len(users[u].messageHistory[p]) :
      /\ Len(users[u].messageHistory[p][e].msgs) >= 1
      /\ Len(users[u].messageHistory[p][e].msgs) <= 500

\* a channel filled to 500 by an event, and a channel an event has just
\* created, with its first message
C28_Witness ==
  \E u \in DOMAIN users, p, q \in PlatformSet :
    \E e \in 1..Len(users[u].messageHistory[p]) :
      \E f \in 1..Len(users[u].messageHistory[q]) :
        /\ Len(users[u].messageHistory[p][e].msgs) = 500
        /\ users[u].messageHistory[p][e].msgs[500].seq > 0
        /\ Len(users[u].messageHistory[q][f].msgs) = 1
        /\ users[u].messageHistory[q][f].msgs[1].seq > 0

\* the messages a search result holds, each with its platform and channel
MatchesOf(results) ==
  {<<results[t[1]].platform, results[t[1]].results[t[2]].channelInfo.id,
     results[t[1]].results[t[2]].messages[t[3]]>> :
     t \in {x \in (1..Len(results)) \X (1..Cardinality(ChannelIds))
                                   \X (1..MAX_HISTORY_PER_CHANNEL) :
              /\ x[2] <= Len(results[x[1]].results)
              /\ x[3] <= Len(results[x[1]].results[x[2]].messages)}}

\* C29 as stated: the matching sets are nested, today in recent in
\* yesterday in thisWeek.  It does not hold in a local day of 25 or of 23
\* hours: the start of today is then more than 24 h back, or the start of
\* yesterday less.
C29_NestedRanges ==
  out.kind = "ranges" =>
    /\ MatchesOf(out.results["today"]) \subseteq MatchesOf(out.results["recent"])
    /\ MatchesOf(out.results["recent"]) \subseteq MatchesOf(out.results["yesterday"])
    /\ MatchesOf(out.results["yesterday"]) \subseteq MatchesOf(out.results["thisWeek"])

\* the offset of the zone did not change in the 48 hours before the instant
SteadyZone(zone, now) ==
  \/ zone.base = zone.after
  \/ zone.change > now
  \/ zone.change <= now - 2 * DAY_MS

\* C29, amended: today's matches are among yesterday's, yesterday's and the
\* recent ones among thisWeek's; recent lies between today and yesterday
\* when the offset of the time zone did not change in the last 48 hours.
C29_NestedLocalDays ==
  out.kind = "ranges" =>
    /\ MatchesOf(out.results["today"]) \subseteq MatchesOf(out.results["yesterday"])
    /\ MatchesOf(out.results["yesterday"]) \subseteq MatchesOf(out.results["thisWeek"])
    /\ MatchesOf(out.results["recent"]) \subseteq MatchesOf(out.results["thisWeek"])
    /\ (\A i \in 1..Len(out.nows) : SteadyZone(out.zone, out.nows[i])) =>
         /\ MatchesOf(out.results["today"]) \subseteq MatchesOf(out.results["recent"])
         /\ MatchesOf(out.results["recent"])
              \subseteq MatchesOf(out.results["yesterday"])

\* in a zone without change, four searches whose results grow from today to
\* recent to yesterday; yesterday's hold today's messages
C29_Witness ==
  /\ out.kind = "ranges"
  /\ \A i \in 1..Len(out.nows) : SteadyZone(out.zone, out.nows[i])
  /\ MatchesOf(out.results["today"]) # {}
  /\ MatchesOf(out.results["today"]) # MatchesOf(out.results["recent"])
  /\ MatchesOf(out.results["recent"]) # MatchesOf(out.results["yesterday"])
  /\ MatchesOf(out.results["today"]) \subseteq MatchesOf(out.results["yesterday"])
  /\ MatchesOf(out.results["yesterday"]) \subseteq MatchesOf(out.results["thisWeek"])

\* the step in which the disconnect call that the /disconnect command at
\* place i of cmds awaits fails
DisconnectFails(i) ==
  /\ cmds[i].kind = "disconnect"
  /\ cmds[i].pc = "awaitClient"
  /\ cmds' = RemoveAt(cmds, i)

\* C30: when a client's disconnect call fails during /disconnect, no
\* history is cleared and the requester receives the generic error
\* response.  The histories are kept, but the response does not hold: the
\* rejection passes the try of messageHandler, which does not await the
\* command.
C30_FailedDisconnect ==
  [][\A i \in 1..Len(cmds) :
       DisconnectFails(i) =>
         /\ \A v \in DOMAIN users :
              users'[v].messageHistory = users[v].messageHistory
         /\ out'.kind = "error"
         /\ out'.to = cmds[i].user]_vars

=============================================================================
